---- MODULE Spec2Model ----
(***************************************************************************)
(* A model of the chess engine's position model (board, move application,  *)
(* attack oracle, move generator, perft) and of its transposition table.   *)
(***************************************************************************)
EXTENDS Integers, Sequences, FiniteSets, TLC

(***************************************************************************)
(* Primitive types (types.rs)                                              *)
(***************************************************************************)
Colors == {"White", "Black"}

PieceTypes == {"Pawn", "Knight", "Bishop", "Rook", "Queen", "King"}

Squares == 0 .. 63

\* Option<Square>::None
NoSquare == 0 - 1

\* Option<Piece>::None
NoPiece == [piece_type |-> "None", color |-> "None"]

Piece(pt, c) == [piece_type |-> pt, color |-> c]

opponent(c) == IF c = "White" THEN "Black" ELSE "White"

\* mutant: the two colours' starting ranks swapped
pawn_rank_swapped(c) == IF c = "White" THEN 6 ELSE 1

pawn_rank(c) == IF c = "White" THEN 1 ELSE 6

promotion_rank(c) == IF c = "White" THEN 7 ELSE 0

pawn_direction(c) == IF c = "White" THEN 1 ELSE 0 - 1

\* File::offset / Rank::offset succeed exactly when the result is on the board
OnBoard(x) == x >= 0 /\ x < 8

SquareNew(file, rank) == rank * 8 + file

FileOf(sq) == sq % 8

RankOf(sq) == sq \div 8

Abs(x) == IF x < 0 THEN 0 - x ELSE x

distance(a, b) ==
    LET file_diff == Abs(FileOf(a) - FileOf(b))
        rank_diff == Abs(RankOf(a) - RankOf(b))
    IN  IF file_diff > rank_diff THEN file_diff ELSE rank_diff

Move(from, to) == [from |-> from, to |-> to, promotion |-> "None"]

MovePromotion(from, to, promo) == [from |-> from, to |-> to, promotion |-> promo]

CastlingAll ==
    [white |-> [kingside |-> TRUE, queenside |-> TRUE],
     black |-> [kingside |-> TRUE, queenside |-> TRUE]]

CastlingGet(rights, color) == IF color = "White" THEN rights.white ELSE rights.black

\* mutant: the destination square (a captured rook) is not looked at
update_after_move_ignores_to(rights, from, to) ==
    LET r1 == IF from = 4
                THEN [rights EXCEPT !.white = [kingside |-> FALSE, queenside |-> FALSE]]
                ELSE IF from = 60
                       THEN [rights EXCEPT !.black = [kingside |-> FALSE, queenside |-> FALSE]]
                       ELSE rights
    IN  CASE from = 0  -> [r1 EXCEPT !.white.queenside = FALSE]
          [] from = 7  -> [r1 EXCEPT !.white.kingside = FALSE]
          [] from = 56 -> [r1 EXCEPT !.black.queenside = FALSE]
          [] from = 63 -> [r1 EXCEPT !.black.kingside = FALSE]
          [] OTHER     -> r1

\* mutant: a king leaving e8 sets Black's rights to both() instead of none()
update_after_move_regrants(rights, from, to) ==
    LET r1 == IF from = 4
                THEN [rights EXCEPT !.white = [kingside |-> FALSE, queenside |-> FALSE]]
                ELSE IF from = 60
                       THEN [rights EXCEPT !.black = [kingside |-> TRUE, queenside |-> TRUE]]
                       ELSE rights
        ClearCorner(r, sq) ==
            CASE sq = 0  -> [r EXCEPT !.white.queenside = FALSE]
              [] sq = 7  -> [r EXCEPT !.white.kingside = FALSE]
              [] sq = 56 -> [r EXCEPT !.black.queenside = FALSE]
              [] sq = 63 -> [r EXCEPT !.black.kingside = FALSE]
              [] OTHER   -> r
    IN  ClearCorner(ClearCorner(r1, from), to)

update_after_move(rights, from, to) ==
    LET r1 == IF from = 4
                THEN [rights EXCEPT !.white = [kingside |-> FALSE, queenside |-> FALSE]]
                ELSE IF from = 60
                       THEN [rights EXCEPT !.black = [kingside |-> FALSE, queenside |-> FALSE]]
                       ELSE rights
        ClearCorner(r, sq) ==
            CASE sq = 0  -> [r EXCEPT !.white.queenside = FALSE]
              [] sq = 7  -> [r EXCEPT !.white.kingside = FALSE]
              [] sq = 56 -> [r EXCEPT !.black.queenside = FALSE]
              [] sq = 63 -> [r EXCEPT !.black.kingside = FALSE]
              [] OTHER   -> r
    IN  ClearCorner(ClearCorner(r1, from), to)

(***************************************************************************)
(* Board: array board and bitboard set (board.rs)                          *)
(***************************************************************************)
BoardEmpty == [sq \in Squares |-> NoPiece]

BackRankKinds == <<"Rook", "Knight", "Bishop", "Queen", "King", "Bishop", "Knight", "Rook">>

BoardStartingPosition ==
    [sq \in Squares |->
        CASE sq < 8   -> Piece(BackRankKinds[sq + 1], "White")
          [] sq < 16  -> Piece("Pawn", "White")
          [] sq >= 56 -> Piece(BackRankKinds[sq - 55], "Black")
          [] sq >= 48 -> Piece("Pawn", "Black")
          [] OTHER    -> NoPiece]

Board_move_piece(squares, from, to) ==
    [squares EXCEPT ![from] = NoPiece, ![to] = squares[from]]

is_empty(squares, sq) == squares[sq] = NoPiece

is_color(squares, sq, color) == squares[sq].color = color

is_enemy(squares, sq, color) == squares[sq].color = opponent(color)

\* first square in index order holding the king; panics (no value) when absent
king_square(squares, color) ==
    LET ks == {sq \in Squares : squares[sq] = Piece("King", color)}
    IN  CHOOSE k \in ks : \A o \in ks : k <= o

BitBoardSetEmpty ==
    [pieces |-> [c \in Colors |-> [pt \in PieceTypes |-> {}]],
     color_occupancy |-> [c \in Colors |-> {}],
     all_occupancy |-> {}]

BB_set_piece(bb, sq, piece) ==
    [bb EXCEPT !.pieces[piece.color][piece.piece_type] = @ \cup {sq},
               !.color_occupancy[piece.color] = @ \cup {sq},
               !.all_occupancy = @ \cup {sq}]

BB_clear_square(bb, sq) ==
    [pieces |-> [c \in Colors |-> [pt \in PieceTypes |-> bb.pieces[c][pt] \ {sq}]],
     color_occupancy |-> [c \in Colors |-> bb.color_occupancy[c] \ {sq}],
     all_occupancy |-> bb.all_occupancy \ {sq}]

\* mutant: a captured piece is not removed from the destination's bitboards
BB_move_piece_keeps_to(bb, from, to, piece) ==
    BB_set_piece(BB_clear_square(bb, from), to, piece)

BB_move_piece(bb, from, to, piece) ==
    BB_set_piece(BB_clear_square(BB_clear_square(bb, from), to), to, piece)

\* BitBoardSet::from_board: every occupied square's bit is set in the board of its
\* piece, in the occupancy of its colour and in the total occupancy
from_board(squares) ==
    [pieces |-> [c \in Colors |-> [pt \in PieceTypes |->
                    {sq \in Squares : squares[sq] = Piece(pt, c)}]],
     color_occupancy |-> [c \in Colors |-> {sq \in Squares : squares[sq].color = c}],
     all_occupancy |-> {sq \in Squares : squares[sq] # NoPiece}]

BoardState_move_piece(board, from, to) ==
    [array_board |-> Board_move_piece(board.array_board, from, to),
     bitboards   |-> BB_move_piece(board.bitboards, from, to, board.array_board[from])]

(***************************************************************************)
(* GameState and move application (game_state.rs)                          *)
(***************************************************************************)
GameStateNew ==
    [board |-> [array_board |-> BoardStartingPosition,
                bitboards   |-> from_board(BoardStartingPosition)],
     turn |-> "White",
     castling |-> CastlingAll,
     en_passant |-> NoSquare,
     halfmove_clock |-> 0,
     fullmove_number |-> 1]

\* the width of halfmove_clock (u16): an addition that overflows wraps in a
\* release build (and panics in a debug build, see ApplyMovePanics)
U16 == 65536

\* mutant: castling resets the halfmove clock
apply_castle_resets_clock(s, mv) ==
    LET rank == RankOf(mv.from)
        kingside == FileOf(mv.to) > FileOf(mv.from)
        rook_from == IF kingside THEN SquareNew(7, rank) ELSE SquareNew(0, rank)
        rook_to == IF kingside THEN SquareNew(5, rank) ELSE SquareNew(3, rank)
        b1 == BoardState_move_piece(s.board, mv.from, mv.to)
        b2 == BoardState_move_piece(b1, rook_from, rook_to)
    IN  [s EXCEPT !.board = b2, !.halfmove_clock = 0]

apply_castle(s, mv) ==
    LET rank == RankOf(mv.from)
        kingside == FileOf(mv.to) > FileOf(mv.from)
        rook_from == IF kingside THEN SquareNew(7, rank) ELSE SquareNew(0, rank)
        rook_to == IF kingside THEN SquareNew(5, rank) ELSE SquareNew(3, rank)
        b1 == BoardState_move_piece(s.board, mv.from, mv.to)
        b2 == BoardState_move_piece(b1, rook_from, rook_to)
    IN  [s EXCEPT !.board = b2, !.halfmove_clock = (@ + 1) % U16]

apply_move(s, mv) ==
    LET piece == s.board.array_board[mv.from]
        s1 == IF piece.piece_type = "King" /\ distance(mv.from, mv.to) = 2
              THEN apply_castle(s, mv)
              ELSE
                LET captured == s.board.array_board[mv.to]
                    b1 == BoardState_move_piece(s.board, mv.from, mv.to)
                    b2 == IF piece.piece_type = "Pawn" /\ mv.to = s.en_passant
                          THEN LET capture_square == SquareNew(FileOf(mv.to), RankOf(mv.from))
                                   arr == [b1.array_board EXCEPT ![capture_square] = NoPiece]
                               IN  [array_board |-> arr, bitboards |-> from_board(arr)]
                          ELSE b1
                    b3 == IF mv.promotion # "None"
                          THEN LET arr == [b2.array_board EXCEPT
                                              ![mv.to] = Piece(mv.promotion, piece.color)]
                               IN  [array_board |-> arr, bitboards |-> from_board(arr)]
                          ELSE b2
                    ep == IF piece.piece_type = "Pawn" /\ distance(mv.from, mv.to) = 2
                          THEN SquareNew(FileOf(mv.from),
                                         (RankOf(mv.from) + RankOf(mv.to)) \div 2)
                          ELSE NoSquare
                    hmc == IF piece.piece_type = "Pawn" \/ captured # NoPiece
                           THEN 0 ELSE (s.halfmove_clock + 1) % U16
                IN  [s EXCEPT !.board = b3, !.en_passant = ep, !.halfmove_clock = hmc]
    IN  [s1 EXCEPT !.castling = update_after_move(s.castling, mv.from, mv.to),
                   !.fullmove_number = IF s.turn = "Black" THEN @ + 1 ELSE @,
                   !.turn = opponent(s.turn)]

(***************************************************************************)
(* Attack oracle (game_state.rs)                                           *)
(***************************************************************************)
KNIGHT_MOVES ==
    << <<0 - 2, 0 - 1>>, <<0 - 2, 1>>, <<0 - 1, 0 - 2>>, <<0 - 1, 2>>,
       <<1, 0 - 2>>, <<1, 2>>, <<2, 0 - 1>>, <<2, 1>> >>

KING_MOVES ==
    << <<0 - 1, 0 - 1>>, <<0 - 1, 0>>, <<0 - 1, 1>>, <<0, 0 - 1>>,
       <<0, 1>>, <<1, 0 - 1>>, <<1, 0>>, <<1, 1>> >>

DIAGONALS == << <<0 - 1, 0 - 1>>, <<0 - 1, 1>>, <<1, 0 - 1>>, <<1, 1>> >>

STRAIGHTS == << <<0 - 1, 0>>, <<1, 0>>, <<0, 0 - 1>>, <<0, 1>> >>

\* the on-board squares sq + delta, in the order of the delta table
OffsetSeq(sq, deltas) ==
    LET ok == SelectSeq(deltas, LAMBDA d : OnBoard(FileOf(sq) + d[1]) /\ OnBoard(RankOf(sq) + d[2]))
    IN  [i \in 1 .. Len(ok) |-> SquareNew(FileOf(sq) + ok[i][1], RankOf(sq) + ok[i][2])]

SeqRange(s) == {s[i] : i \in 1 .. Len(s)}

KnightTargets == [sq \in Squares |-> OffsetSeq(sq, KNIGHT_MOVES)]

KingTargets == [sq \in Squares |-> OffsetSeq(sq, KING_MOVES)]

\* the squares of the ray walk from sq in direction d, nearest first
RECURSIVE RayFrom(_, _, _)
RayFrom(f, r, d) ==
    IF OnBoard(f + d[1]) /\ OnBoard(r + d[2])
    THEN <<SquareNew(f + d[1], r + d[2])>> \o RayFrom(f + d[1], r + d[2], d)
    ELSE <<>>

DiagonalRays == [sq \in Squares |-> [i \in 1 .. 4 |-> RayFrom(FileOf(sq), RankOf(sq), DIAGONALS[i])]]

StraightRays == [sq \in Squares |-> [i \in 1 .. 4 |-> RayFrom(FileOf(sq), RankOf(sq), STRAIGHTS[i])]]

is_pawn_attacked(s, square, attacker) ==
    LET dr == IF attacker = "White" THEN 0 - 1 ELSE 1
        pawn_attacks == {SquareNew(FileOf(square) + df, RankOf(square) + dr) :
                            df \in {d \in {0 - 1, 1} : OnBoard(FileOf(square) + d)
                                                        /\ OnBoard(RankOf(square) + dr)}}
    IN  pawn_attacks \cap s.board.bitboards.pieces[attacker]["Pawn"] # {}

is_knight_attacked(s, square, attacker) ==
    SeqRange(KnightTargets[square]) \cap s.board.bitboards.pieces[attacker]["Knight"] # {}

is_attacked_along_ray(s, ray, attacker, diagonal) ==
    LET blockers == SelectSeq(ray, LAMBDA q : s.board.array_board[q] # NoPiece)
    IN  /\ blockers # <<>>
        /\ LET piece == s.board.array_board[blockers[1]]
           IN  /\ piece.color = attacker
               /\ IF diagonal
                  THEN piece.piece_type = "Bishop" \/ piece.piece_type = "Queen"
                  ELSE piece.piece_type = "Rook" \/ piece.piece_type = "Queen"

is_slider_attacked(s, square, attacker) ==
    \/ \E i \in 1 .. 4 : is_attacked_along_ray(s, DiagonalRays[square][i], attacker, TRUE)
    \/ \E i \in 1 .. 4 : is_attacked_along_ray(s, StraightRays[square][i], attacker, FALSE)

is_king_attacked(s, square, attacker) ==
    SeqRange(KingTargets[square]) \cap s.board.bitboards.pieces[attacker]["King"] # {}

is_attacked_by(s, square, attacker) ==
    \/ is_pawn_attacked(s, square, attacker)
    \/ is_knight_attacked(s, square, attacker)
    \/ is_slider_attacked(s, square, attacker)
    \/ is_king_attacked(s, square, attacker)

is_side_in_check(s, color) ==
    is_attacked_by(s, king_square(s.board.array_board, color), opponent(color))

is_in_check(s) == is_side_in_check(s, s.turn)

(***************************************************************************)
(* Move generator (move_gen.rs)                                            *)
(***************************************************************************)
KNIGHT_DELTAS == KNIGHT_MOVES

KING_DELTAS == KING_MOVES

DIAGONAL_DIRS == DIAGONALS

STRAIGHT_DIRS == STRAIGHTS

ALL_DIRS == KING_MOVES

KnightMoveTargets == [sq \in Squares |-> OffsetSeq(sq, KNIGHT_DELTAS)]

KingMoveTargets == [sq \in Squares |-> OffsetSeq(sq, KING_DELTAS)]

AllRays == [sq \in Squares |-> [i \in 1 .. 8 |-> RayFrom(FileOf(sq), RankOf(sq), ALL_DIRS[i])]]

SquareSeq == [i \in 1 .. 64 |-> i - 1]

\* BitBoard::iter: the set squares in ascending index order
BitBoardIter(bb) == SelectSeq(SquareSeq, LAMBDA sq : sq \in bb)

\* mutant: the first promotion piece is a king
PromotionKinds_king_first == <<"King", "Rook", "Bishop", "Knight">>

PromotionKinds == <<"Queen", "Rook", "Bishop", "Knight">>

\* the move(s) pushed for a pawn step onto `to`: four promotions on the far rank
pawn_step(color, from, to) ==
    IF RankOf(to) = promotion_rank(color)
    THEN [i \in 1 .. 4 |-> MovePromotion(from, to, PromotionKinds[i])]
    ELSE <<Move(from, to)>>

\* one iteration of the loop of generate_pawn_moves
pawn_moves_from(s, color, from) ==
    LET arr == s.board.array_board
        direction == pawn_direction(color)
        from_rank == RankOf(from)
        from_file == FileOf(from)
        to_rank == from_rank + direction
        double_rank == to_rank + direction
        pushes ==
            IF OnBoard(to_rank) /\ is_empty(arr, SquareNew(from_file, to_rank))
            THEN pawn_step(color, from, SquareNew(from_file, to_rank))
                 \o (IF /\ from_rank = pawn_rank(color)
                        /\ OnBoard(double_rank)
                        /\ is_empty(arr, SquareNew(from_file, double_rank))
                     THEN <<Move(from, SquareNew(from_file, double_rank))>>
                     ELSE <<>>)
            ELSE <<>>
        capture(df) ==
            IF /\ OnBoard(to_rank)
               /\ OnBoard(from_file + df)
               /\ is_enemy(arr, SquareNew(from_file + df, to_rank), color)
            THEN pawn_step(color, from, SquareNew(from_file + df, to_rank))
            ELSE <<>>
        en_passant ==
            IF /\ s.en_passant # NoSquare
               /\ OnBoard(to_rank)
               /\ RankOf(s.en_passant) = to_rank
               /\ Abs(FileOf(s.en_passant) - from_file) = 1
            THEN <<Move(from, s.en_passant)>>
            ELSE <<>>
    IN  pushes \o capture(0 - 1) \o capture(1) \o en_passant

\* knight and king steps: every on-board offset not blocked by an own piece
step_moves_from(s, color, from, targets) ==
    LET free == SelectSeq(targets, LAMBDA to : ~is_color(s.board.array_board, to, color))
    IN  [i \in 1 .. Len(free) |-> Move(from, free[i])]

RECURSIVE slide_ray(_, _, _, _, _)
slide_ray(arr, from, color, ray, i) ==
    IF i > Len(ray) THEN <<>>
    ELSE IF is_empty(arr, ray[i])
         THEN <<Move(from, ray[i])>> \o slide_ray(arr, from, color, ray, i + 1)
         ELSE IF is_enemy(arr, ray[i], color) THEN <<Move(from, ray[i])>> ELSE <<>>

RECURSIVE generate_sliding_moves(_, _, _, _, _)
generate_sliding_moves(s, from, color, rays, i) ==
    IF i > Len(rays) THEN <<>>
    ELSE slide_ray(s.board.array_board, from, color, rays[i], 1)
         \o generate_sliding_moves(s, from, color, rays, i + 1)

piece_moves_from(s, color, kind, from) ==
    CASE kind = "Pawn"   -> pawn_moves_from(s, color, from)
      [] kind = "Knight" -> step_moves_from(s, color, from, KnightMoveTargets[from])
      [] kind = "Bishop" -> generate_sliding_moves(s, from, color, DiagonalRays[from], 1)
      [] kind = "Rook"   -> generate_sliding_moves(s, from, color, StraightRays[from], 1)
      [] kind = "Queen"  -> generate_sliding_moves(s, from, color, AllRays[from], 1)
      [] kind = "King"   -> step_moves_from(s, color, from, KingMoveTargets[from])

RECURSIVE moves_over(_, _, _, _, _)
moves_over(s, color, kind, froms, i) ==
    IF i > Len(froms) THEN <<>>
    ELSE piece_moves_from(s, color, kind, froms[i]) \o moves_over(s, color, kind, froms, i + 1)

\* generate_pawn_moves .. generate_king_moves: the loop over the kind's bitboard
generate_kind_moves(s, color, kind) ==
    moves_over(s, color, kind, BitBoardIter(s.board.bitboards.pieces[color][kind]), 1)

\* mutant: the square the king crosses is not tested for attack
generate_castling_moves_crossed_unchecked(s, color) ==
    LET rights == CastlingGet(s.castling, color)
        arr == s.board.array_board
        king_sq == king_square(arr, color)
        back_rank == IF color = "White" THEN 0 ELSE 7
        opp == opponent(color)
        f1 == SquareNew(5, back_rank)
        g1 == SquareNew(6, back_rank)
        d1 == SquareNew(3, back_rank)
        c1 == SquareNew(2, back_rank)
        b1 == SquareNew(1, back_rank)
    IN  IF ~(rights.kingside \/ rights.queenside) THEN <<>>
        ELSE IF is_attacked_by(s, king_sq, opp) THEN <<>>
        ELSE (IF /\ rights.kingside
                 /\ is_empty(arr, f1) /\ is_empty(arr, g1)
                 /\ ~is_attacked_by(s, g1, opp)
              THEN <<Move(king_sq, g1)>> ELSE <<>>)
          \o (IF /\ rights.queenside
                 /\ is_empty(arr, d1) /\ is_empty(arr, c1) /\ is_empty(arr, b1)
                 /\ ~is_attacked_by(s, c1, opp)
              THEN <<Move(king_sq, c1)>> ELSE <<>>)

generate_castling_moves(s, color) ==
    LET rights == CastlingGet(s.castling, color)
        arr == s.board.array_board
        king_sq == king_square(arr, color)
        back_rank == IF color = "White" THEN 0 ELSE 7
        opp == opponent(color)
        f1 == SquareNew(5, back_rank)
        g1 == SquareNew(6, back_rank)
        d1 == SquareNew(3, back_rank)
        c1 == SquareNew(2, back_rank)
        b1 == SquareNew(1, back_rank)
    IN  IF ~(rights.kingside \/ rights.queenside) THEN <<>>
        ELSE IF is_attacked_by(s, king_sq, opp) THEN <<>>
        ELSE (IF /\ rights.kingside
                 /\ is_empty(arr, f1) /\ is_empty(arr, g1)
                 /\ ~is_attacked_by(s, f1, opp) /\ ~is_attacked_by(s, g1, opp)
              THEN <<Move(king_sq, g1)>> ELSE <<>>)
          \o (IF /\ rights.queenside
                 /\ is_empty(arr, d1) /\ is_empty(arr, c1) /\ is_empty(arr, b1)
                 /\ ~is_attacked_by(s, d1, opp) /\ ~is_attacked_by(s, c1, opp)
              THEN <<Move(king_sq, c1)>> ELSE <<>>)

\* mutant: the rook generator also walks the queens
generate_pseudo_legal_moves_rook_queen(s) ==
    LET color == s.turn
    IN  generate_kind_moves(s, color, "Pawn")
        \o generate_kind_moves(s, color, "Knight")
        \o generate_kind_moves(s, color, "Bishop")
        \o generate_kind_moves(s, color, "Rook")
        \o moves_over(s, color, "Rook", BitBoardIter(s.board.bitboards.pieces[color]["Queen"]), 1)
        \o generate_kind_moves(s, color, "Queen")
        \o generate_kind_moves(s, color, "King")
        \o generate_castling_moves(s, color)

generate_pseudo_legal_moves(s) ==
    LET color == s.turn
    IN  generate_kind_moves(s, color, "Pawn")
        \o generate_kind_moves(s, color, "Knight")
        \o generate_kind_moves(s, color, "Bishop")
        \o generate_kind_moves(s, color, "Rook")
        \o generate_kind_moves(s, color, "Queen")
        \o generate_kind_moves(s, color, "King")
        \o generate_castling_moves(s, color)

\* mutant: nothing is filtered out
filter_legal_moves_keeps_all(s, moves) == moves

filter_legal_moves(s, moves) ==
    SelectSeq(moves, LAMBDA mv : ~is_side_in_check(apply_move(s, mv), s.turn))

generate_legal_moves(s) == filter_legal_moves(s, generate_pseudo_legal_moves(s))

(***************************************************************************)
(* Perft (perft.rs)                                                        *)
(***************************************************************************)
RECURSIVE perft(_, _)
RECURSIVE perft_sum(_, _, _, _)
perft_sum(s, moves, i, depth) ==
    IF i > Len(moves) THEN 0
    ELSE perft(apply_move(s, moves[i]), depth - 1) + perft_sum(s, moves, i + 1, depth)

perft(s, depth) ==
    IF depth = 0 THEN 1
    ELSE LET moves == generate_legal_moves(s)
         IN  IF depth = 1 THEN Len(moves) ELSE perft_sum(s, moves, 1, depth)

(***************************************************************************)
(* Zobrist keys (zobrist.rs).  A key is named by its place in the key      *)
(* tables; a 64-bit hash value is the set of keys whose XOR it is, and the *)
(* value 0 is the empty set.                                               *)
(***************************************************************************)
Xor(a, b) == (a \ b) \cup (b \ a)

\* the XOR of all terms: the keys that occur in an odd number of them
XorAll(terms) ==
    {k \in UNION SeqRange(terms) :
        Cardinality({i \in 1 .. Len(terms) : k \in terms[i]}) % 2 = 1}

piece_square_key(piece, square) ==
    {<<"piece_square", piece.color, piece.piece_type, square>>}

side_to_move_key(color) ==
    IF color = "White" THEN {} ELSE {<<"black_to_move", "", "", 0>>}

\* mutant: Black's queen-side right sets the bit of Black's king-side right
castling_key_shared_bit(rights) ==
    LET bits == (IF rights.white.kingside THEN {1} ELSE {})
                \cup (IF rights.white.queenside THEN {2} ELSE {})
                \cup (IF rights.black.kingside THEN {4} ELSE {})
                \cup (IF rights.black.queenside THEN {4} ELSE {})
        index == (IF 1 \in bits THEN 1 ELSE 0) + (IF 2 \in bits THEN 2 ELSE 0)
                 + (IF 4 \in bits THEN 4 ELSE 0) + (IF 8 \in bits THEN 8 ELSE 0)
    IN  {<<"castling", "", "", index>>}

\* index |= bit, for each right that is set
castling_key(rights) ==
    LET bits == (IF rights.white.kingside THEN {1} ELSE {})
                \cup (IF rights.white.queenside THEN {2} ELSE {})
                \cup (IF rights.black.kingside THEN {4} ELSE {})
                \cup (IF rights.black.queenside THEN {8} ELSE {})
        index == (IF 1 \in bits THEN 1 ELSE 0) + (IF 2 \in bits THEN 2 ELSE 0)
                 + (IF 4 \in bits THEN 4 ELSE 0) + (IF 8 \in bits THEN 8 ELSE 0)
    IN  {<<"castling", "", "", index>>}

en_passant_key(square) ==
    IF square = NoSquare THEN {} ELSE {<<"en_passant", "", "", FileOf(square)>>}

\* GameState::zobrist_hash, the hash alpha_beta keys the table with: the XOR of
\* the keys of the placement, the side to move, the rights and the en-passant file
zobrist_hash(s) ==
    XorAll([i \in 1 .. 64 |->
                IF s.board.array_board[i - 1] # NoPiece
                THEN piece_square_key(s.board.array_board[i - 1], i - 1)
                ELSE {}]
           \o <<side_to_move_key(s.turn), castling_key(s.castling),
                en_passant_key(s.en_passant)>>)

(***************************************************************************)
(* Transposition table (transposition.rs).  A 64-bit word is the tuple of  *)
(* its four 16-bit parts, lowest first.                                    *)
(***************************************************************************)
NodeTypes == {"Exact", "LowerBound", "UpperBound"}

NoMove == [from |-> 0, to |-> 0, promotion |-> "NoMove"]

ZeroWord == <<0, 0, 0, 0>>

\* a hash value as a word; the hashes of the model are below 2^16
HashWord(hash) == <<hash, 0, 0, 0>>

pack_entry(entry) ==
    LET move_bits ==
            IF entry.best_move # NoMove
            THEN entry.best_move.from * 1024 + entry.best_move.to * 16
                 + (CASE entry.best_move.promotion = "Queen"  -> 1
                      [] entry.best_move.promotion = "Rook"   -> 2
                      [] entry.best_move.promotion = "Bishop" -> 3
                      [] entry.best_move.promotion = "Knight" -> 4
                      [] OTHER -> 0)
            ELSE 0
        score_bits == (entry.score + 32768) % 65536
        node_type_bits == CASE entry.node_type = "Exact"      -> 0
                            [] entry.node_type = "LowerBound" -> 1
                            [] entry.node_type = "UpperBound" -> 2
        \* bits 32..47: depth (8), node type (2), the low 6 bits of age
        third == entry.depth + node_type_bits * 256 + (entry.age % 64) * 1024
        \* bits 48..63: the high 2 bits of age
        fourth == entry.age \div 64
    IN  <<HashWord(entry.hash), <<move_bits, score_bits, third, fourth>>>>

unpack_entry(packed1, packed2) ==
    LET move_bits == packed2[1]
        from == (move_bits \div 1024) % 64
        to == (move_bits \div 16) % 64
        promo == CASE move_bits % 16 = 1 -> "Queen"
                   [] move_bits % 16 = 2 -> "Rook"
                   [] move_bits % 16 = 3 -> "Bishop"
                   [] move_bits % 16 = 4 -> "Knight"
                   [] OTHER -> "None"
        node_type_bits == (packed2[3] \div 256) % 4
    IN  [hash |-> packed1[1],
         best_move |-> IF move_bits # 0
                       THEN [from |-> from, to |-> to, promotion |-> promo]
                       ELSE NoMove,
         score |-> packed2[2] - 32768,
         depth |-> packed2[3] % 256,
         node_type |-> CASE node_type_bits = 0 -> "Exact"
                         [] node_type_bits = 1 -> "LowerBound"
                         [] node_type_bits = 2 -> "UpperBound"
                         [] OTHER -> "Exact",
         age |-> ((packed2[3] \div 1024) + packed2[4] * 64) % 256]

\* number of slots of the table of the model (a power of two)
TTSlots == 2

size_mask == TTSlots - 1

SlotIndex(hash) == (hash % TTSlots) * 2

\* the values the two threads call store() and probe() with
MaxHash == 2

Hashes == 0 .. MaxHash

TTMoves == {NoMove, Move(12, 28)}

\* a negative and a positive static evaluation, and the score of a mate found
\* at fullmove_number 2 (CHECKMATE_SCORE - 2)
TTScores == {0 - 25, 40, 99998}

TTDepths == {1, 2}

\* how many store() calls a run makes
MaxStores == 2

\* usize::next_power_of_two: the smallest power of two that is at least n
next_power_of_two(n) ==
    IF n <= 1 THEN 1 ELSE 2 ^ (CHOOSE k \in 1 .. 30 : 2 ^ (k - 1) < n /\ n <= 2 ^ k)

RECURSIVE BitAnd(_, _)
\* a & b on non-negative integers
BitAnd(a, b) ==
    IF a = 0 \/ b = 0 THEN 0
    ELSE (IF a % 2 = 1 /\ b % 2 = 1 THEN 1 ELSE 0) + 2 * BitAnd(a \div 2, b \div 2)

\* TranspositionTable::new: the mask and the number of words allocated
TranspositionTable_new(size_mb) ==
    LET entries_per_mb == (1024 * 1024) \div 16
        num_entries == size_mb * entries_per_mb
        size == next_power_of_two(num_entries) \div 2
    IN  [size_mask |-> size - 1, words |-> size * 2]

\* the index of the first word of a hash's slot, in store and in probe
word_index(table, hash) == BitAnd(hash, table.size_mask) * 2

\* probe() run with no store in between its two loads
probe(entries, hash) ==
    LET entry == unpack_entry(entries[SlotIndex(hash)], entries[SlotIndex(hash) + 1])
    IN  IF entry.hash = hash THEN entry ELSE [hash |-> 0, best_move |-> NoMove, score |-> 0,
                                              depth |-> 0, node_type |-> "None", age |-> 0]

NoEntry == [hash |-> 0, best_move |-> NoMove, score |-> 0, depth |-> 0,
            node_type |-> "None", age |-> 0]

NoArgs == [hash |-> 0, best_move |-> NoMove, score |-> 0, depth |-> 0,
           node_type |-> "None", age |-> 0]

(***************************************************************************)
(* Search (search.rs).  The search sees a position through its legal       *)
(* moves, check flag, static evaluation, hash, side to move and move       *)
(* number; the positions searched are those of a small game tree.          *)
(***************************************************************************)
INFINITY == 1000000

CHECKMATE_SCORE == 100000

TIME_CHECK_INTERVAL == 1000

QUIESCENCE_DEPTH == 4

\* Option::None of a numeric limit
None == 0 - 1

\* a panic of the thread that evaluates the expression
Panic == 0 - 2

Min(a, b) == IF a < b THEN a ELSE b

Max(a, b) == IF a > b THEN a ELSE b

\* PieceType::value
PieceValue(kind) ==
    CASE kind = "Pawn"   -> 100
      [] kind = "Knight" -> 320
      [] kind = "Bishop" -> 330
      [] kind = "Rook"   -> 500
      [] kind = "Queen"  -> 900
      [] OTHER           -> 0

SearchLimits(max_depth, move_time, nodes, white_time, black_time, white_increment, black_increment, moves_to_go) ==
    [max_depth |-> max_depth, move_time |-> move_time, nodes |-> nodes,
     white_time |-> white_time, black_time |-> black_time,
     white_increment |-> white_increment, black_increment |-> black_increment,
     moves_to_go |-> moves_to_go]

NoLimits == SearchLimits(None, None, None, None, None, None, None, None)

\* mutant: the 95% cap is not applied
allocate_time_floor_first(limits, side, fullmove_number) ==
    IF limits.move_time # None THEN limits.move_time
    ELSE
      LET our_time == IF side = "White" THEN limits.white_time ELSE limits.black_time
          inc == IF side = "White" THEN limits.white_increment ELSE limits.black_increment
          our_inc == IF inc = None THEN 0 ELSE inc
      IN  IF our_time = None THEN None
          ELSE
            LET moves_left ==
                    IF limits.moves_to_go # None THEN limits.moves_to_go
                    ELSE IF fullmove_number \in 1 .. 10 THEN 30
                    ELSE IF fullmove_number \in 11 .. 30 THEN 20
                    ELSE 10
            IN  IF moves_left = 0 THEN Panic
                ELSE Max((our_time \div moves_left) + (our_inc * 8) \div 10, 50)

\* mutant: the whole increment is added
allocate_time_full_increment(limits, side, fullmove_number) ==
    IF limits.move_time # None THEN limits.move_time
    ELSE
      LET our_time == IF side = "White" THEN limits.white_time ELSE limits.black_time
          inc == IF side = "White" THEN limits.white_increment ELSE limits.black_increment
          our_inc == IF inc = None THEN 0 ELSE inc
      IN  IF our_time = None THEN None
          ELSE
            LET moves_left ==
                    IF limits.moves_to_go # None THEN limits.moves_to_go
                    ELSE IF fullmove_number \in 1 .. 10 THEN 30
                    ELSE IF fullmove_number \in 11 .. 30 THEN 20
                    ELSE 10
            IN  IF moves_left = 0 THEN Panic
                ELSE
                  LET base_time == our_time \div moves_left
                      increment_bonus == our_inc
                      max_time == (our_time * 95) \div 100
                      allocated == Min(base_time + increment_bonus, max_time)
                  IN  Max(allocated, 50)

\* allocate_time: None, the move time in ms, or Panic (division by zero)
allocate_time(limits, side, fullmove_number) ==
    IF limits.move_time # None THEN limits.move_time
    ELSE
      LET our_time == IF side = "White" THEN limits.white_time ELSE limits.black_time
          inc == IF side = "White" THEN limits.white_increment ELSE limits.black_increment
          our_inc == IF inc = None THEN 0 ELSE inc
      IN  IF our_time = None THEN None
          ELSE
            LET moves_left ==
                    IF limits.moves_to_go # None THEN limits.moves_to_go
                    ELSE IF fullmove_number \in 1 .. 10 THEN 30
                    ELSE IF fullmove_number \in 11 .. 30 THEN 20
                    ELSE 10
            IN  IF moves_left = 0 THEN Panic
                ELSE
                  LET base_time == our_time \div moves_left
                      increment_bonus == (our_inc * 8) \div 10
                      max_time == (our_time * 95) \div 100
                      allocated == Min(base_time + increment_bonus, max_time)
                  IN  Max(allocated, 50)

\* search_internal, lines 250-254: the limits the search runs under
search_internal_limits(limits, side, fullmove_number) ==
    IF limits.white_time # None /\ limits.black_time # None
    THEN LET allocated_time == allocate_time(limits, side, fullmove_number)
         IN  IF allocated_time # None THEN [limits EXCEPT !.move_time = allocated_time]
             ELSE limits
    ELSE limits

\* the positions of the game tree the search runs on: a binary tree of
\* TreeDepth plies (children 2p+1 and 2p+2, no legal moves at the leaves), a
\* position with one move that mates, the mated position and a stalemate
TreeDepth == 12

TreeSize == 2 ^ (TreeDepth + 1) - 1

MatingPosition == TreeSize

MatedPosition == TreeSize + 1

StalematePosition == TreeSize + 2

\* a position near the leaves, the root of a tree of four plies
DeepPosition == 2 ^ (TreeDepth - 4) - 1

Ply(p) == CHOOSE k \in 0 .. TreeDepth : 2 ^ k <= p + 1 /\ p + 1 < 2 ^ (k + 1)

\* a legal move of a position with what the search reads of it: the move, the
\* successor position, the moving piece, the piece on the target square and
\* whether it is an en-passant capture
Edge(from, child, attacker, victim, en_passant) ==
    [mv |-> Move(from % 64, child % 64), child |-> child, attacker |-> attacker,
     victim |-> victim, en_passant |-> en_passant]

SearchPosition(turn, fullmove_number, in_check, evaluation, legal) ==
    [turn |-> turn, fullmove_number |-> fullmove_number, in_check |-> in_check,
     evaluation |-> evaluation, legal |-> legal]

\* two small games with a transposition: from ClampRoot the position ClampT,
\* and from PvRoot the position PvT, is reached through either root move
ClampRoot == TreeSize + 3

ClampA == TreeSize + 4

ClampB == TreeSize + 5

ClampA2 == TreeSize + 6

ClampT == TreeSize + 7

ClampB2 == TreeSize + 8

PvRoot == TreeSize + 9

PvE1 == TreeSize + 10

PvT == TreeSize + 11

PvE2 == TreeSize + 12

PvX2 == TreeSize + 13

PvX1 == TreeSize + 14

LastPosition == PvX1

QuietEdge(from, child) == Edge(from, child, "Rook", "None", FALSE)

\* the positions of the two games: White moves at the roots and at the leaves
TranspositionGames(p) ==
    CASE p = ClampRoot -> SearchPosition("White", 1, FALSE, 0,
                              <<QuietEdge(p, ClampA), QuietEdge(p, ClampB)>>)
      [] p = ClampA -> SearchPosition("Black", 1, FALSE, 0 - 10,
                              <<QuietEdge(p, ClampA2), QuietEdge(p, ClampT)>>)
      [] p = ClampB -> SearchPosition("Black", 1, FALSE, 0 - 20,
                              <<QuietEdge(p, ClampT), QuietEdge(p, ClampB2)>>)
      [] p = ClampA2 -> SearchPosition("White", 2, FALSE, 10, <<>>)
      [] p = ClampT -> SearchPosition("White", 2, FALSE, 60, <<>>)
      [] p = ClampB2 -> SearchPosition("White", 2, FALSE, 110, <<>>)
      [] p = PvRoot -> SearchPosition("White", 1, FALSE, 0,
                              <<QuietEdge(p, PvE1), QuietEdge(p, PvE2)>>)
      [] p = PvE1 -> SearchPosition("Black", 1, FALSE, 0 - 10,
                              <<QuietEdge(p, PvT), QuietEdge(p, PvX1)>>)
      [] p = PvE2 -> SearchPosition("Black", 1, FALSE, 0 - 20,
                              <<QuietEdge(p, PvT), QuietEdge(p, PvX2)>>)
      [] p = PvT -> SearchPosition("White", 2, FALSE, 20, <<>>)
      [] p = PvX1 -> SearchPosition("White", 2, FALSE, 0, <<>>)
      [] p = PvX2 -> SearchPosition("White", 2, FALSE, 30, <<>>)

SearchPositions ==
    [p \in 0 .. LastPosition |->
        IF 2 * p + 2 < TreeSize
        THEN SearchPosition(IF Ply(p) % 2 = 0 THEN "White" ELSE "Black",
                            1 + Ply(p) \div 2, FALSE, ((p * 37) % 41) - 20,
                            <<IF p % 4 = 1 THEN Edge(p, 2 * p + 1, "Pawn", "None", TRUE)
                                           ELSE Edge(p, 2 * p + 1, "Rook", "None", FALSE),
                              IF p % 2 = 0 THEN Edge(p, 2 * p + 2, "Knight", "Pawn", FALSE)
                                           ELSE Edge(p, 2 * p + 2, "Knight", "None", FALSE)>>)
        ELSE IF p < TreeSize
        THEN SearchPosition(IF TreeDepth % 2 = 0 THEN "White" ELSE "Black",
                            1 + TreeDepth \div 2, FALSE, ((p * 37) % 41) - 20, <<>>)
        ELSE IF p = MatingPosition
        THEN SearchPosition("White", 1, FALSE, 15,
                            <<Edge(p, MatedPosition, "Queen", "None", FALSE)>>)
        ELSE IF p = MatedPosition
        THEN SearchPosition("Black", 1, TRUE, 0 - 15, <<>>)
        ELSE IF p = StalematePosition
        THEN SearchPosition("White", 1, FALSE, 0, <<>>)
        ELSE TranspositionGames(p)]

\* what the search calls on a position
position_legal_moves(p) == SearchPositions[p].legal

position_is_in_check(p) == SearchPositions[p].in_check

position_evaluate(p) == SearchPositions[p].evaluation

\* the hash of a position: distinct positions have distinct hashes, none is 0
position_hash(p) == p + 1

\* slice::sort_by_cached_key: a stable sort by ascending key
sort_by_cached_key(s, keys) ==
    LET n == Len(s)
        rank(i) == 1 + Cardinality({j \in 1 .. n :
                          keys[j] < keys[i] \/ (keys[j] = keys[i] /\ j < i)})
    IN  [r \in 1 .. n |-> s[CHOOSE i \in 1 .. n : rank(i) = r]]

order_moves_with_tt(moves, tt_move) ==
    sort_by_cached_key(moves,
        [i \in 1 .. Len(moves) |->
            IF tt_move = moves[i].mv THEN 0 - 10000
            ELSE (IF moves[i].victim # "None" THEN 0 - 1000 ELSE 0)
                 + (IF moves[i].mv.promotion # "None" THEN 0 - 900 ELSE 0)])

order_moves(moves) == order_moves_with_tt(moves, NoMove)

order_captures(moves) ==
    sort_by_cached_key(moves,
        [i \in 1 .. Len(moves) |->
            (IF moves[i].victim # "None" THEN 0 - PieceValue(moves[i].victim) * 10 ELSE 0)
            + PieceValue(moves[i].attacker)
            + (IF moves[i].mv.promotion # "None"
               THEN 0 - PieceValue(moves[i].mv.promotion) * 10 ELSE 0)])

\* quiescence, lines 500-512: captures, promotions and en-passant captures
capture_moves(moves) ==
    SelectSeq(moves, LAMBDA e : e.victim # "None" \/ e.mv.promotion # "None" \/ e.en_passant)

\* mutant: the clock is read every other interval
should_stop_sparse(info, elapsed) ==
    IF info.stopped THEN TRUE
    ELSE IF info.limits.nodes # None /\ info.nodes >= info.limits.nodes THEN TRUE
    ELSE IF info.nodes % (2 * TIME_CHECK_INTERVAL) = 0
    THEN info.limits.move_time # None /\ elapsed >= info.limits.move_time
    ELSE FALSE

\* SearchInfo::should_stop: its result, which is also the new value of stopped
should_stop(info, elapsed) ==
    IF info.stopped THEN TRUE
    ELSE IF info.limits.nodes # None /\ info.nodes >= info.limits.nodes THEN TRUE
    ELSE IF info.nodes % TIME_CHECK_INTERVAL = 0
    THEN info.limits.move_time # None /\ elapsed >= info.limits.move_time
    ELSE FALSE

\* the stop test of search_with_callback_and_stop: should_stop, and the stop
\* flag of the caller read at the same interval as the clock
should_stop_or_flag(info, elapsed, stop) ==
    IF should_stop(info, elapsed) THEN TRUE
    ELSE info.nodes % TIME_CHECK_INTERVAL = 0 /\ stop

\* the deepest iteration of iterative_deepening_limits
MaxIterations == 100

\* SearchInfo::with_callback
SearchInfo(limits) == [limits |-> limits, nodes |-> 0, stopped |-> FALSE]

\* TranspositionTable::store run as one step
store(entries, generation, hash, best_move, score, depth, node_type) ==
    LET packed == pack_entry([hash |-> hash, best_move |-> best_move, score |-> score,
                              depth |-> depth, node_type |-> node_type,
                              age |-> generation])
    IN  [entries EXCEPT ![SlotIndex(hash)] = packed[1],
                        ![SlotIndex(hash) + 1] = packed[2]]

\* the value a call returns: (score, best move, principal variation)
Returned(score, best_move, pv) ==
    [set |-> TRUE, score |-> score, best_move |-> best_move, pv |-> pv]

NoReturn == [set |-> FALSE, score |-> 0, best_move |-> NoMove, pv |-> <<>>]

\* the locals of a call of alpha_beta_root, alpha_beta or quiescence that has
\* reached its loop over the moves (or, for alpha_beta at depth 0, its call of
\* quiescence)
Frame(fn, position, depth, alpha, beta, moves, pc) ==
    [fn |-> fn, position |-> position, depth |-> depth, alpha |-> alpha, beta |-> beta,
     original_alpha |-> alpha, moves |-> moves, i |-> 1, best_score |-> 0 - INFINITY,
     best_move |-> NoMove, best_pv |-> <<>>, pc |-> pc]

SearchResult(best_move, score, depth, nodes, stopped) ==
    [best_move |-> best_move, score |-> score, depth |-> depth, nodes |-> nodes,
     stopped |-> stopped]

NoResult == SearchResult(NoMove, 0, 0, 0, FALSE)

(***************************************************************************)
(* UCI front end (uci.rs): the position command.                           *)
(***************************************************************************)
Letters == <<"a", "b", "c", "d", "e", "f", "g", "h", "i", "j", "k", "l", "m",
             "n", "o", "p", "q", "r", "s", "t", "u", "v", "w", "x", "y", "z">>

Digits == <<"0", "1", "2", "3", "4", "5", "6", "7", "8", "9">>

\* the byte of a character of a token
Ascii(c) ==
    IF \E i \in 1 .. 26 : Letters[i] = c
    THEN 96 + (CHOOSE i \in 1 .. 26 : Letters[i] = c)
    ELSE 47 + (CHOOSE i \in 1 .. 10 : Digits[i] = c)

\* (a as i8 - b as i8) as u8
ByteDifference(a, b) == (a - b + 256) % 256

\* UciEngine::parse_move on a token given as its characters: the move, or
\* NoMove where the code returns None
parse_move(position, move_str) ==
    IF Len(move_str) < 4 THEN NoMove
    ELSE
      LET bytes == [i \in 1 .. Len(move_str) |-> Ascii(move_str[i])]
          from_file == ByteDifference(bytes[1], Ascii("a"))
          from_rank == ByteDifference(bytes[2], Ascii("1"))
          to_file == ByteDifference(bytes[3], Ascii("a"))
          to_rank == ByteDifference(bytes[4], Ascii("1"))
      IN  IF from_file >= 8 \/ from_rank >= 8 \/ to_file >= 8 \/ to_rank >= 8
          THEN NoMove
          ELSE
            LET promotion ==
                    IF Len(move_str) > 4
                    THEN CASE move_str[5] = "q" -> "Queen"
                           [] move_str[5] = "r" -> "Rook"
                           [] move_str[5] = "b" -> "Bishop"
                           [] move_str[5] = "n" -> "Knight"
                           [] OTHER -> "None"
                    ELSE "None"
                mv == MovePromotion(SquareNew(from_file, from_rank),
                                    SquareNew(to_file, to_rank), promotion)
                legal == generate_legal_moves(position)
            IN  IF \E i \in 1 .. Len(legal) : legal[i] = mv THEN mv ELSE NoMove

\* handle_position, lines 122-132: the tokens after "moves" from the idx-th on
RECURSIVE apply_move_tokens(_, _, _)
apply_move_tokens(position, tokens, idx) ==
    IF idx > Len(tokens) THEN position
    ELSE LET mv == parse_move(position, tokens[idx])
         IN  apply_move_tokens(IF mv # NoMove THEN apply_move(position, mv)
                               ELSE position,
                               tokens, idx + 1)

\* a position command: its second word ("" when there is none), whether the
\* word "moves" follows, and the tokens after it
PositionCommand(start, has_moves, tokens) ==
    [start |-> start, has_moves |-> has_moves, tokens |-> tokens]

\* UciEngine::handle_position: the position stored after the command
handle_position(position, parts) ==
    IF parts.start = "" THEN position
    ELSE IF parts.start = "startpos"
    THEN IF parts.has_moves THEN apply_move_tokens(GameStateNew, parts.tokens, 1)
         ELSE GameStateNew
    ELSE position

(***************************************************************************)
(* UCI front end (uci.rs): the go command.                                 *)
(***************************************************************************)
\* one argument of a go line: a keyword and the number after it (None for
\* infinite, which has none)
GoArg(word, value) == [word |-> word, value |-> value]

\* handle_go, lines 148-237: the limits after the arguments from the idx-th on
RECURSIVE parse_go_args(_, _, _)
parse_go_args(limits, args, idx) ==
    IF idx > Len(args) THEN limits
    ELSE
      LET word == args[idx].word
          value == args[idx].value
      IN  parse_go_args(
              CASE word = "depth" ->
                       IF value <= 255 THEN [limits EXCEPT !.max_depth = value] ELSE limits
                [] word = "movetime" -> [limits EXCEPT !.move_time = value]
                [] word = "nodes" -> [limits EXCEPT !.nodes = value]
                [] word = "infinite" -> [limits EXCEPT !.max_depth = 100]
                [] word = "wtime" -> [limits EXCEPT !.white_time = value]
                [] word = "btime" -> [limits EXCEPT !.black_time = value]
                [] word = "winc" -> [limits EXCEPT !.white_increment = value]
                [] word = "binc" -> [limits EXCEPT !.black_increment = value]
                [] word = "movestogo" -> [limits EXCEPT !.moves_to_go = value]
                [] OTHER -> limits,
              args, idx + 1)

\* handle_go, lines 136-247: the limits of a go line
go_limits(args) ==
    LET limits == parse_go_args(NoLimits, args, 1)
    IN  IF /\ limits.max_depth = None
           /\ limits.move_time = None
           /\ limits.nodes = None
           /\ limits.white_time = None
           /\ limits.black_time = None
        THEN [limits EXCEPT !.max_depth = 6]
        ELSE limits

\* an input line: its first word and, for go, its arguments
Line(cmd, args) == [cmd |-> cmd, args |-> args]

(***************************************************************************)
(* The game driver: a position that starts as GameState::new() and is      *)
(* advanced by apply_move on moves taken from generate_legal_moves.  The   *)
(* games explored follow one of the recorded lines below and may leave it  *)
(* by up to MaxFree arbitrary legal moves.                                 *)
(***************************************************************************)
\* both sides castle king-side; Black castles right after White's double push h2h4: e2e4 e7e5 g1f3 g8f6 f1c4 f8c5 h2h4 e8g8 e1g1 d7d6
BookKingsideCastles ==
    << Move(12, 28),
       Move(52, 36),
       Move(6, 21),
       Move(62, 45),
       Move(5, 26),
       Move(61, 34),
       Move(15, 31),
       Move(60, 62),
       Move(4, 6),
       Move(51, 43) >>

\* both sides castle queen-side: d2d4 d7d5 b1c3 b8c6 c1f4 c8f5 d1d2 d8d7 e1c1 e8c8
BookQueensideCastles ==
    << Move(11, 27),
       Move(51, 35),
       Move(1, 18),
       Move(57, 42),
       Move(2, 29),
       Move(58, 37),
       Move(3, 11),
       Move(59, 51),
       Move(4, 2),
       Move(60, 58) >>

\* White captures en passant: e2e4 a7a6 e4e5 d7d5 e5d6 c7d6
BookWhiteEnPassant ==
    << Move(12, 28),
       Move(48, 40),
       Move(28, 36),
       Move(51, 35),
       Move(36, 43),
       Move(50, 43) >>

\* Black captures en passant: a2a3 e7e5 a3a4 e5e4 d2d4 e4d3 c2d3
BookBlackEnPassant ==
    << Move(8, 16),
       Move(52, 36),
       Move(16, 24),
       Move(36, 28),
       Move(11, 27),
       Move(28, 19),
       Move(10, 19) >>

\* a white pawn promotes by capturing the rook on h8: h2h4 g7g5 h4g5 h7h6 g5h6 f8g7 h6g7 g8f6 g7h8q
BookWhitePromotion ==
    << Move(15, 31),
       Move(54, 38),
       Move(31, 38),
       Move(55, 47),
       Move(38, 47),
       Move(61, 54),
       Move(47, 54),
       Move(62, 45),
       MovePromotion(54, 63, "Queen") >>

\* a black pawn promotes by capturing the rook on h1: g2g4 h7h5 h2h3 h5g4 f1g2 g4h3 g1f3 h3g2 a2a3 g2h1q
BookBlackPromotion ==
    << Move(14, 30),
       Move(55, 39),
       Move(15, 23),
       Move(39, 30),
       Move(5, 14),
       Move(30, 23),
       Move(6, 21),
       Move(23, 14),
       Move(8, 16),
       MovePromotion(14, 7, "Queen") >>

\* a bishop captures the rook on its home corner h8: b2b3 g7g6 c1b2 g8h6 b2h8
BookCornerCapture ==
    << Move(9, 17),
       Move(54, 46),
       Move(2, 9),
       Move(62, 47),
       Move(9, 63) >>

\* rooks and kings leave their home squares and return: a2a4 a7a5 a1a3 a8a6 e2e4 e7e5 e1e2 e8e7 e2e1 e7e8 a3a1 a6a8
BookShuffle ==
    << Move(8, 24),
       Move(48, 32),
       Move(0, 16),
       Move(56, 40),
       Move(12, 28),
       Move(52, 36),
       Move(4, 12),
       Move(60, 52),
       Move(12, 4),
       Move(52, 60),
       Move(16, 0),
       Move(40, 56) >>

\* ends in checkmate: e2e4 e7e5 d1h5 b8c6 f1c4 g8f6 h5f7
BookScholarsMate ==
    << Move(12, 28),
       Move(52, 36),
       Move(3, 39),
       Move(57, 42),
       Move(5, 26),
       Move(62, 45),
       Move(39, 53) >>

\* a bishop on a6 attacks f1 while White may still castle: g2g3 b7b6 f1g2 c8a6 g1f3 b8c6 e2e4 g8f6 d2d3
BookCastlePathAttacked ==
    << Move(14, 22),
       Move(49, 41),
       Move(5, 14),
       Move(58, 40),
       Move(6, 21),
       Move(57, 42),
       Move(12, 28),
       Move(62, 45),
       Move(11, 19) >>

BookLines ==
    {BookKingsideCastles,
     BookCastlePathAttacked,
     BookQueensideCastles,
     BookWhiteEnPassant,
     BookBlackEnPassant,
     BookWhitePromotion,
     BookBlackPromotion,
     BookCornerCapture,
     BookShuffle,
     BookScholarsMate}

\* how many moves a game may play off the recorded lines
MaxFree == 1

\* perft depths of test_perft_starting_position
PerftDepths == {1, 2, 3}

NoPerft == [depth |-> 0, nodes |-> 0]

VARIABLES
    state,      \* the current GameState
    prev,       \* the GameState the last move was applied to
    moves,      \* the moves applied since GameState::new()
    free,       \* how many of them left the recorded lines
    perft_out   \* depth and result of the perft call made, if any

game_vars == <<state, prev, moves, free, perft_out>>

VARIABLES
    tt_entries,     \* TranspositionTable::entries, two words per slot
    tt_generation,  \* TranspositionTable::generation
    store_pc,       \* where the storing thread stands in store()
    store_args,     \* the arguments of the store() call in progress
    probe_pc,       \* where the probing thread stands in probe()
    probe_hash,     \* the argument of the probe() call in progress or last made
    probe_packed1,  \* the first word probe() loaded
    probe_result,   \* what the last probe() returned
    store_calls     \* every store() call made so far, as <<hash, entry data>>

tt_vars == <<tt_entries, tt_generation, store_pc, store_args, probe_pc, probe_hash,
             probe_packed1, probe_result, store_calls>>

\* the variables of the table that the threads of store() and probe() own
tt_thread_vars == <<tt_generation, store_pc, store_args, probe_pc, probe_hash,
                    probe_packed1, probe_result, store_calls>>

VARIABLES
    s_pc,           \* where the search stands: idle, call_root, in_root,
                    \* root_returned, done or panicked
    s_root,         \* the position searched
    s_given,        \* the limits the search was called with
    info,           \* SearchInfo: limits, nodes, stopped
    elapsed,        \* info.start_time.elapsed()
    stack,          \* the calls of alpha_beta_root, alpha_beta and quiescence in progress
    ret,            \* the value the last call returned, until its caller has read it
    s_depth,        \* the depth of the current root search
    saved_nodes,    \* iterative_deepening_limits: saved_nodes
    best_result,    \* iterative_deepening_limits: best_result
    s_result,       \* the SearchResult returned
    callbacks,      \* the SearchProgress values the callback was invoked with
    g_committed,    \* best move, score and depth of the last root search that
                    \* returned with the search not stopped
    g_cond_since,   \* nodes visited while the deadline had elapsed or the node
                    \* cap was reached and stopped was still false
    g_stopped_store \* store() was called with stopped set

search_vars == <<s_pc, s_root, s_given, info, elapsed, stack, ret, s_depth, saved_nodes,
                 best_result, s_result, callbacks, g_committed, g_cond_since,
                 g_stopped_store>>

VARIABLES
    stop_flag,      \* UciEngine::stop_flag
    search_thread,  \* UciEngine::search_thread is Some
    uci_root,       \* the position the go commands search
    uci_lines,      \* the lines of standard input not yet read
    main_pc,        \* where the main thread stands: read, go_join, stop_join,
                    \* quit_join or exited (main has returned)
    main_limits,    \* handle_go: limits
    thread_state,   \* the search thread: none, running, finished or panicked
    thread_limits,  \* the limits moved into the search thread
    thread_go,      \* which go command spawned the search thread
    go_count,       \* how many go commands were read
    threads_running,\* how many search threads are running
    bestmoves       \* the bestmove lines printed: the go command answered and
                    \* the move named (NoMove for 0000)

uci_vars == <<stop_flag, search_thread, uci_root, uci_lines, main_pc, main_limits,
              thread_state, thread_limits, thread_go, go_count, threads_running,
              bestmoves>>

VARIABLES
    uci_position,   \* UciEngine::position
    position_before,\* the position stored before the last position command
    position_parts, \* the last position command
    position_count  \* how many position commands were handled

position_vars == <<uci_position, position_before, position_parts, position_count>>

VARIABLES
    time_args,      \* the limits, side to move and move number allocate_time is called with
    time_result     \* what allocate_time returned

time_vars == <<time_args, time_result>>

VARIABLES
    clock_pc,       \* apply_move on clock_position: not called, returned or panicked
    clock_position, \* the position apply_move is called on
    clock_move,     \* the move it is called with
    clock_result    \* the position it returned

clock_vars == <<clock_pc, clock_position, clock_move, clock_result>>

VARIABLES
    size_pc,        \* idle, or made once TranspositionTable::new has returned
    size_mb,        \* the argument of TranspositionTable::new
    size_table,     \* the table made: size_mask and the length of entries
    size_hash,      \* the hash last stored or probed
    size_index      \* the word index computed for it

size_vars == <<size_pc, size_mb, size_table, size_hash, size_index>>

VARIABLES
    order_pc,       \* idle, or sorted once order_captures has returned
    order_input,    \* the capture list passed to order_captures
    order_output    \* the list as order_captures leaves it

order_vars == <<order_pc, order_input, order_output>>

\* the variables of the calls of single functions
call_vars == <<clock_vars, size_vars, order_vars>>

vars == <<game_vars, tt_vars, search_vars, uci_vars, time_vars, position_vars, call_vars>>

\* what a step of the game, of the table's threads and of the search leaves alone
not_game == <<position_vars, tt_vars, search_vars, uci_vars, time_vars, call_vars>>

not_tt == <<position_vars, game_vars, search_vars, uci_vars, time_vars, call_vars>>

not_search == <<position_vars, game_vars, tt_thread_vars, uci_vars, time_vars, call_vars>>

not_time == <<position_vars, game_vars, tt_vars, search_vars, uci_vars, call_vars>>

not_position == <<game_vars, tt_vars, search_vars, uci_vars, time_vars, call_vars>>

not_clock == <<game_vars, tt_vars, search_vars, uci_vars, time_vars, position_vars, size_vars, order_vars>>

not_size == <<game_vars, tt_vars, search_vars, uci_vars, time_vars, position_vars, clock_vars, order_vars>>

not_order == <<game_vars, tt_vars, search_vars, uci_vars, time_vars, position_vars, clock_vars, size_vars>>

NoCommit == [best_move |-> NoMove, score |-> 0, depth |-> 0]

SearchInit ==
    /\ s_pc = "idle"
    /\ s_root = 0
    /\ s_given = NoLimits
    /\ info = SearchInfo(NoLimits)
    /\ elapsed = 0
    /\ stack = <<>>
    /\ ret = NoReturn
    /\ s_depth = 0
    /\ saved_nodes = 0
    /\ best_result = NoResult
    /\ s_result = NoResult
    /\ callbacks = <<>>
    /\ g_committed = NoCommit
    /\ g_cond_since = 0
    /\ g_stopped_store = FALSE

\* UciEngine::new, with no input
UciInit ==
    /\ stop_flag = FALSE
    /\ search_thread = FALSE
    /\ uci_root = 0
    /\ uci_lines = <<>>
    /\ main_pc = "read"
    /\ main_limits = NoLimits
    /\ thread_state = "none"
    /\ thread_limits = NoLimits
    /\ thread_go = 0
    /\ go_count = 0
    /\ threads_running = 0
    /\ bestmoves = <<>>

\* UciEngine::new
PositionInit ==
    /\ uci_position = GameStateNew
    /\ position_before = GameStateNew
    /\ position_parts = PositionCommand("", FALSE, <<>>)
    /\ position_count = 0

\* allocate_time has not been called
NotComputed == 0 - 3

TimeInit ==
    /\ time_args = [limits |-> NoLimits, side |-> "White", fullmove_number |-> 1]
    /\ time_result = NotComputed


IsPrefix(s, l) == Len(s) <= Len(l) /\ SubSeq(l, 1, Len(s)) = s

OnBook(ms) == \E l \in BookLines : IsPrefix(ms, l)

GameInit ==
    /\ state = GameStateNew
    /\ prev = GameStateNew
    /\ moves = <<>>
    /\ free = 0
    /\ perft_out = NoPerft

\* TranspositionTable::new: every word is 0
TTInit ==
    /\ tt_entries = [i \in 0 .. 2 * TTSlots - 1 |-> ZeroWord]
    /\ tt_generation = 0
    /\ store_pc = "idle"
    /\ store_args = NoArgs
    /\ probe_pc = "idle"
    /\ probe_hash = 0
    /\ probe_packed1 = ZeroWord
    /\ probe_result = NoEntry
    /\ store_calls = {}

\* no call of apply_move made
ClockInit ==
    /\ clock_pc = "idle"
    /\ clock_position = GameStateNew
    /\ clock_move = NoMove
    /\ clock_result = GameStateNew

\* no table made
SizeInit ==
    /\ size_pc = "idle"
    /\ size_mb = 1
    /\ size_table = [size_mask |-> 0, words |-> 0]
    /\ size_hash = 0
    /\ size_index = 0

\* no list ordered
OrderInit ==
    /\ order_pc = "idle"
    /\ order_input = <<>>
    /\ order_output = <<>>

CallInit == ClockInit /\ SizeInit /\ OrderInit

Init == GameInit /\ TTInit /\ SearchInit /\ UciInit /\ TimeInit /\ PositionInit /\ CallInit

\* one move of generate_legal_moves(state) is applied
PlayMove ==
    /\ perft_out = NoPerft
    /\ free < (IF free = 0 THEN 1 ELSE MaxFree)
    /\ LET legal == generate_legal_moves(state)
       IN  \E i \in 1 .. Len(legal) :
              LET played == Append(moves, legal[i])
                  off == IF free = 0 /\ OnBook(played) THEN 0 ELSE free + 1
              IN  /\ off <= MaxFree
                  /\ state' = apply_move(state, legal[i])
                  /\ prev' = state
                  /\ moves' = played
                  /\ free' = off
    /\ UNCHANGED perft_out
    /\ UNCHANGED not_game

\* perft(&GameState::new(), depth), as test_perft_starting_position runs it
RunPerft ==
    /\ perft_out = NoPerft
    /\ moves = <<>>
    /\ \E d \in PerftDepths : perft_out' = [depth |-> d, nodes |-> perft(state, d)]
    /\ UNCHANGED <<state, prev, moves, free>>
    /\ UNCHANGED not_game

Next == PlayMove \/ RunPerft

Spec == Init /\ [][Next]_vars

(***************************************************************************)
(* The table shared by a storing thread and a probing thread.  Each atomic *)
(* store or load of one word is one step.                                  *)
(***************************************************************************)
\* store(): the entry is packed and its first word (the hash) is written
StoreFirstWord ==
    /\ store_pc = "idle"
    /\ Cardinality(store_calls) < MaxStores
    /\ \E hash \in Hashes, best_move \in TTMoves, score \in TTScores,
          depth \in TTDepths, node_type \in NodeTypes :
          LET entry == [hash |-> hash, best_move |-> best_move, score |-> score,
                        depth |-> depth, node_type |-> node_type,
                        age |-> tt_generation]
          IN  /\ store_args' = entry
              /\ tt_entries' = [tt_entries EXCEPT ![SlotIndex(hash)] = pack_entry(entry)[1]]
              /\ store_calls' = store_calls \cup {entry}
    /\ store_pc' = "second"
    /\ UNCHANGED <<tt_generation, probe_pc, probe_hash, probe_packed1, probe_result>>
    /\ UNCHANGED not_tt

\* store(): the second word (the data) is written
StoreSecondWord ==
    /\ store_pc = "second"
    /\ tt_entries' = [tt_entries EXCEPT
                         ![SlotIndex(store_args.hash) + 1] = pack_entry(store_args)[2]]
    /\ store_pc' = "idle"
    /\ UNCHANGED <<tt_generation, store_args, probe_pc, probe_hash, probe_packed1,
                   probe_result, store_calls>>
    /\ UNCHANGED not_tt

\* probe(): the first word is loaded
ProbeFirstWord ==
    /\ probe_pc = "idle"
    /\ \E hash \in Hashes :
          /\ probe_hash' = hash
          /\ probe_packed1' = tt_entries[SlotIndex(hash)]
    /\ probe_pc' = "second"
    /\ probe_result' = NoEntry
    /\ UNCHANGED <<tt_entries, tt_generation, store_pc, store_args, store_calls>>
    /\ UNCHANGED not_tt

\* probe(): the second word is loaded, the entry unpacked and its hash compared
ProbeSecondWord ==
    /\ probe_pc = "second"
    /\ LET entry == unpack_entry(probe_packed1, tt_entries[SlotIndex(probe_hash) + 1])
       IN  probe_result' = IF entry.hash = probe_hash THEN entry ELSE NoEntry
    /\ probe_pc' = "idle"
    /\ UNCHANGED <<tt_entries, tt_generation, store_pc, store_args, probe_hash,
                   probe_packed1, store_calls>>
    /\ UNCHANGED not_tt

\* clear(&mut self), which no store() or probe() can overlap: every word is
\* zeroed and the generation reset; the calls made before it are forgotten
Clear ==
    /\ store_pc = "idle"
    /\ probe_pc = "idle"
    /\ tt_entries' = [i \in 0 .. 2 * TTSlots - 1 |-> ZeroWord]
    /\ tt_generation' = 0
    /\ store_args' = NoArgs
    /\ store_calls' = {}
    /\ probe_packed1' = ZeroWord
    /\ probe_result' = NoEntry
    /\ UNCHANGED <<store_pc, probe_pc, probe_hash>>
    /\ UNCHANGED not_tt

NextTT == StoreFirstWord \/ StoreSecondWord \/ ProbeFirstWord \/ ProbeSecondWord \/ Clear

SpecTT == Init /\ [][NextTT]_vars

(***************************************************************************)
(* One search (search_with_callback): each step runs the code of one call  *)
(* up to the next call it makes, or from the return of a call to the next  *)
(* call or return.  One time unit passes per node visited.                 *)
(***************************************************************************)
Top == stack[Len(stack)]

Pop == SubSeq(stack, 1, Len(stack) - 1)

ReplaceTop(frame) == [stack EXCEPT ![Len(stack)] = frame]

\* the deadline has elapsed or the node cap is reached
StopConditionHolds ==
    \/ info.limits.move_time # None /\ elapsed >= info.limits.move_time
    \/ info.limits.nodes # None /\ info.nodes >= info.limits.nodes

\* the bookkeeping of one node visit: time passes, and the visit is counted
\* when the stop condition already held and the search had not noticed
VisitNode ==
    /\ elapsed' = elapsed + 1
    /\ g_cond_since' = IF StopConditionHolds /\ ~info.stopped
                       THEN g_cond_since + 1 ELSE g_cond_since

\* search_with_callback up to the first call of alpha_beta_root
SearchInternal(position, limits) ==
    /\ s_pc = "idle"
    /\ LET side == SearchPositions[position].turn
           fullmove_number == SearchPositions[position].fullmove_number
           panics == /\ limits.white_time # None
                     /\ limits.black_time # None
                     /\ allocate_time(limits, side, fullmove_number) = Panic
           run == IF panics THEN limits
                  ELSE search_internal_limits(limits, side, fullmove_number)
       IN  /\ info' = SearchInfo(run)
           /\ s_pc' = IF panics THEN "panicked" ELSE "call_root"
           /\ s_depth' = IF run.max_depth # None THEN run.max_depth ELSE 1
    /\ s_root' = position
    /\ s_given' = limits
    /\ UNCHANGED <<elapsed, stack, ret, saved_nodes, best_result, s_result, callbacks,
                   g_committed, g_cond_since, g_stopped_store,
                   tt_entries>>
    /\ UNCHANGED not_search

\* alpha_beta_root, lines 285-302, called by search_internal (line 265) or by
\* iterative_deepening_limits (lines 608-610)
AlphaBetaRootCall ==
    /\ s_pc = "call_root"
    /\ LET legal == position_legal_moves(s_root)
       IN  IF legal = <<>>
           THEN /\ ret' = Returned(IF position_is_in_check(s_root)
                                   THEN SearchPositions[s_root].fullmove_number
                                        - CHECKMATE_SCORE
                                   ELSE 0, NoMove, <<>>)
                /\ s_pc' = "root_returned"
                /\ g_committed' = [best_move |-> NoMove,
                                   score |-> IF position_is_in_check(s_root)
                                             THEN SearchPositions[s_root].fullmove_number
                                                  - CHECKMATE_SCORE
                                             ELSE 0,
                                   depth |-> s_depth]
                /\ UNCHANGED stack
           ELSE /\ stack' = <<Frame("alpha_beta_root", s_root, s_depth, 0 - INFINITY,
                                    INFINITY, order_moves(legal), "loop")>>
                /\ s_pc' = "in_root"
                /\ ret' = NoReturn
                /\ UNCHANGED g_committed
    /\ saved_nodes' = IF info.limits.max_depth = None THEN info.nodes ELSE saved_nodes
    /\ UNCHANGED <<s_root, s_given, info, elapsed, s_depth, best_result, s_result,
                   callbacks, g_cond_since, g_stopped_store,
                   tt_entries>>
    /\ UNCHANGED not_search

\* a call of alpha_beta from the loop of alpha_beta_root (lines 305-306) or of
\* alpha_beta (lines 424-427), and alpha_beta itself from line 339 to its
\* return, its call of quiescence (line 390) or its loop (line 422)
AlphaBetaCall ==
    /\ s_pc = "in_root"
    /\ ~ret.set
    /\ Top.fn \in {"alpha_beta_root", "alpha_beta"}
    /\ Top.pc = "loop"
    /\ VisitNode
    /\ LET position == Top.moves[Top.i].child
           depth == IF Top.depth = 0 THEN 255 ELSE Top.depth - 1
           alpha == 0 - Top.beta
           beta == 0 - Top.alpha
           visited == [info EXCEPT !.nodes = @ + 1]
           stop == should_stop_or_flag(visited, elapsed + 1, stop_flag)
           hash == position_hash(position)
           entry == probe(tt_entries, hash)
           usable == entry # NoEntry /\ entry.depth >= depth
           raised == IF usable /\ entry.node_type = "LowerBound"
                     THEN Max(alpha, entry.score) ELSE alpha
           legal == position_legal_moves(position)
           called == [Frame("alpha_beta", position, depth, raised, beta,
                            IF depth = 0 THEN <<>>
                            ELSE order_moves_with_tt(legal,
                                    IF entry # NoEntry THEN entry.best_move ELSE NoMove),
                            IF depth = 0 THEN "quiescence" ELSE "loop")
                      EXCEPT !.original_alpha = alpha]
           returns ==
               IF stop THEN Returned(0, NoMove, <<>>)
               ELSE IF usable /\ entry.node_type = "Exact"
               THEN Returned(entry.score, entry.best_move,
                             <<IF entry.best_move # NoMove THEN entry.best_move
                               ELSE Move(0, 0)>>)
               ELSE IF usable /\ entry.node_type = "UpperBound" /\ entry.score <= alpha
               THEN Returned(entry.score, entry.best_move, <<>>)
               ELSE IF usable /\ raised >= beta
               THEN Returned(entry.score, entry.best_move, <<>>)
               ELSE IF depth = 0 THEN NoReturn
               ELSE IF legal = <<>>
               THEN Returned(IF position_is_in_check(position)
                             THEN SearchPositions[position].fullmove_number
                                  - CHECKMATE_SCORE
                             ELSE 0, NoMove, <<>>)
               ELSE NoReturn
       IN  /\ info' = [visited EXCEPT !.stopped = stop]
           /\ ret' = returns
           /\ stack' = IF returns.set THEN stack ELSE Append(stack, called)
    /\ UNCHANGED <<s_pc, s_root, s_given, s_depth, saved_nodes, best_result, s_result,
                   callbacks, g_committed, g_stopped_store, tt_entries>>
    /\ UNCHANGED not_search

\* a call of quiescence from alpha_beta (line 390) or from the loop of
\* quiescence (lines 523-524), and quiescence itself from line 473 to its
\* return or its loop (line 522)
QuiescenceCall ==
    /\ s_pc = "in_root"
    /\ ~ret.set
    /\ Top.fn \in {"alpha_beta", "quiescence"}
    /\ Top.pc = (IF Top.fn = "alpha_beta" THEN "quiescence" ELSE "loop")
    /\ VisitNode
    /\ LET first == Top.fn = "alpha_beta"
           position == IF first THEN Top.position ELSE Top.moves[Top.i].child
           depth == IF first THEN QUIESCENCE_DEPTH ELSE Top.depth - 1
           alpha == IF first THEN Top.alpha ELSE 0 - Top.beta
           beta == IF first THEN Top.beta ELSE 0 - Top.alpha
           visited == [info EXCEPT !.nodes = @ + 1]
           stop == should_stop_or_flag(visited, elapsed + 1, stop_flag)
           stand_pat == position_evaluate(position)
           raised == Max(alpha, stand_pat)
           captures == capture_moves(position_legal_moves(position))
           returns ==
               IF stop THEN Returned(0, NoMove, <<>>)
               ELSE IF stand_pat >= beta THEN Returned(beta, NoMove, <<>>)
               ELSE IF depth <= 0 THEN Returned(stand_pat, NoMove, <<>>)
               ELSE IF captures = <<>> THEN Returned(stand_pat, NoMove, <<>>)
               ELSE NoReturn
       IN  /\ info' = [visited EXCEPT !.stopped = stop]
           /\ ret' = returns
           /\ stack' = IF returns.set THEN stack
                       ELSE Append(stack, Frame("quiescence", position, depth, raised,
                                                beta, order_captures(captures), "loop"))
    /\ UNCHANGED <<s_pc, s_root, s_given, s_depth, saved_nodes, best_result, s_result,
                   callbacks, g_committed, g_stopped_store, tt_entries>>
    /\ UNCHANGED not_search

\* the debug build panics on depth - 1 at depth 0 (line 306); the release
\* build wraps to 255, which is what AlphaBetaCall computes
DepthUnderflowPanic ==
    /\ s_pc = "in_root"
    /\ ~ret.set
    /\ Top.fn = "alpha_beta_root"
    /\ Top.depth = 0
    /\ s_pc' = "panicked"
    /\ UNCHANGED <<s_root, s_given, info, elapsed, stack, ret, s_depth, saved_nodes,
                   best_result, s_result, callbacks, g_committed, g_cond_since,
                   g_stopped_store, tt_entries>>
    /\ UNCHANGED not_search

\* alpha_beta from the return of a recursive call (line 427) to its next call
\* or its return (lines 428-463)
AlphaBetaResume ==
    /\ s_pc = "in_root"
    /\ ret.set
    /\ Top.fn = "alpha_beta"
    /\ Top.pc = "loop"
    /\ LET frame == Top
           mv == frame.moves[frame.i].mv
           score == 0 - ret.score
           better == score > frame.best_score
           best_score == IF better THEN score ELSE frame.best_score
           best_move == IF better THEN mv ELSE frame.best_move
           best_pv == IF better THEN <<mv>> \o ret.pv ELSE frame.best_pv
           alpha == Max(frame.alpha, score)
           node_type == IF best_score <= frame.original_alpha THEN "UpperBound"
                        ELSE IF best_score >= frame.beta THEN "LowerBound"
                        ELSE "Exact"
       IN  IF info.stopped
           THEN /\ ret' = Returned(frame.best_score, frame.best_move, frame.best_pv)
                /\ stack' = Pop
                /\ UNCHANGED tt_entries
           ELSE IF alpha >= frame.beta \/ frame.i = Len(frame.moves)
           THEN /\ tt_entries' = store(tt_entries, tt_generation,
                                       position_hash(frame.position), best_move,
                                       best_score, frame.depth, node_type)
                /\ ret' = Returned(best_score, best_move, best_pv)
                /\ stack' = Pop
           ELSE /\ stack' = ReplaceTop([frame EXCEPT !.i = @ + 1, !.alpha = alpha,
                                                     !.best_score = best_score,
                                                     !.best_move = best_move,
                                                     !.best_pv = best_pv])
                /\ ret' = NoReturn
                /\ UNCHANGED tt_entries
    /\ UNCHANGED <<s_pc, s_root, s_given, info, elapsed, s_depth, saved_nodes,
                   best_result, s_result, callbacks, g_committed, g_cond_since,
                   g_stopped_store>>
    /\ UNCHANGED not_search

\* alpha_beta at depth 0 from the return of quiescence to its own return
\* (lines 390-392)
AlphaBetaAfterQuiescence ==
    /\ s_pc = "in_root"
    /\ ret.set
    /\ Top.fn = "alpha_beta"
    /\ Top.pc = "quiescence"
    /\ tt_entries' = store(tt_entries, tt_generation, position_hash(Top.position),
                           NoMove, ret.score, 0, "Exact")
    /\ g_stopped_store' = (g_stopped_store \/ info.stopped)
    /\ ret' = Returned(ret.score, NoMove, <<>>)
    /\ stack' = Pop
    /\ UNCHANGED <<s_pc, s_root, s_given, info, elapsed, s_depth, saved_nodes,
                   best_result, s_result, callbacks, g_committed, g_cond_since>>
    /\ UNCHANGED not_search

\* quiescence from the return of a recursive call (line 524) to its next call
\* or its return (lines 526-539)
QuiescenceResume ==
    /\ s_pc = "in_root"
    /\ ret.set
    /\ Top.fn = "quiescence"
    /\ LET frame == Top
           score == 0 - ret.score
           alpha == Max(frame.alpha, score)
       IN  IF info.stopped
           THEN /\ ret' = Returned(frame.alpha, NoMove, <<>>)
                /\ stack' = Pop
           ELSE IF score >= frame.beta
           THEN /\ ret' = Returned(frame.beta, NoMove, <<>>)
                /\ stack' = Pop
           ELSE IF frame.i = Len(frame.moves)
           THEN /\ ret' = Returned(alpha, NoMove, <<>>)
                /\ stack' = Pop
           ELSE /\ stack' = ReplaceTop([frame EXCEPT !.i = @ + 1, !.alpha = alpha])
                /\ ret' = NoReturn
    /\ UNCHANGED <<s_pc, s_root, s_given, info, elapsed, s_depth, saved_nodes,
                   best_result, s_result, callbacks, g_committed, g_cond_since,
                   g_stopped_store, tt_entries>>
    /\ UNCHANGED not_search

\* alpha_beta_root from the return of alpha_beta (line 306) to its next call
\* or its return (lines 307-329)
RootResume ==
    /\ s_pc = "in_root"
    /\ ret.set
    /\ Top.fn = "alpha_beta_root"
    /\ LET frame == Top
           mv == frame.moves[frame.i].mv
           score == 0 - ret.score
           better == score > frame.best_score
           best_score == IF better THEN score ELSE frame.best_score
           best_move == IF better THEN mv ELSE frame.best_move
           best_pv == IF better THEN <<mv>> \o ret.pv ELSE frame.best_pv
           alpha == Max(frame.alpha, score)
       IN  IF info.stopped
           THEN /\ ret' = Returned(frame.best_score, frame.best_move, frame.best_pv)
                /\ stack' = <<>>
                /\ s_pc' = "root_returned"
                /\ UNCHANGED g_committed
           ELSE IF alpha >= frame.beta \/ frame.i = Len(frame.moves)
           THEN /\ ret' = Returned(best_score, best_move, best_pv)
                /\ stack' = <<>>
                /\ s_pc' = "root_returned"
                /\ g_committed' = [best_move |-> best_move, score |-> best_score,
                                   depth |-> frame.depth]
           ELSE /\ stack' = ReplaceTop([frame EXCEPT !.i = @ + 1, !.alpha = alpha,
                                                     !.best_score = best_score,
                                                     !.best_move = best_move,
                                                     !.best_pv = best_pv])
                /\ ret' = NoReturn
                /\ UNCHANGED <<s_pc, g_committed>>
    /\ UNCHANGED <<s_root, s_given, info, elapsed, s_depth, saved_nodes, best_result,
                   s_result, callbacks, g_cond_since, g_stopped_store, tt_entries>>
    /\ UNCHANGED not_search

\* search_internal, lines 267-271: the result of a fixed-depth search
FixedDepthReturn ==
    /\ s_pc = "root_returned"
    /\ info.limits.max_depth # None
    /\ s_result' = SearchResult(ret.best_move, ret.score, info.limits.max_depth,
                                info.nodes, info.stopped)
    /\ s_pc' = "done"
    /\ UNCHANGED <<s_root, s_given, info, elapsed, stack, ret, s_depth, saved_nodes,
                   best_result, callbacks, g_committed, g_cond_since,
                   g_stopped_store, tt_entries>>
    /\ UNCHANGED not_search

\* iterative_deepening_limits from the return of alpha_beta_root (line 610) to
\* the next iteration or the return (lines 613-643)
IterativeDeepeningResume ==
    /\ s_pc = "root_returned"
    /\ info.limits.max_depth = None
    /\ IF ~info.stopped /\ ret.best_move # NoMove
       THEN LET completed == SearchResult(ret.best_move, ret.score, s_depth,
                                          info.nodes, FALSE)
                last == \/ ret.score >= CHECKMATE_SCORE - 100
                        \/ 0 - ret.score >= CHECKMATE_SCORE - 100
                        \/ s_depth = MaxIterations
            IN  /\ best_result' = completed
                /\ callbacks' = Append(callbacks, [depth |-> s_depth, score |-> ret.score,
                                                   nodes |-> info.nodes, pv |-> ret.pv])
                /\ s_result' = IF last THEN [completed EXCEPT !.stopped = info.stopped]
                               ELSE s_result
                /\ s_pc' = IF last THEN "done" ELSE "call_root"
                /\ s_depth' = IF last THEN s_depth ELSE s_depth + 1
                /\ UNCHANGED info
       ELSE /\ info' = [info EXCEPT !.nodes = saved_nodes]
            /\ s_result' = [best_result EXCEPT !.stopped = info.stopped]
            /\ s_pc' = "done"
            /\ UNCHANGED <<best_result, callbacks, s_depth>>
    /\ UNCHANGED <<s_root, s_given, elapsed, stack, ret, saved_nodes, g_committed,
                   g_cond_since, g_stopped_store, tt_entries>>
    /\ UNCHANGED not_search


\* the searches run: the position and the limits of each
SearchRuns ==
    {<<DeepPosition, [NoLimits EXCEPT !.max_depth = 2]>>,
     <<DeepPosition, [NoLimits EXCEPT !.max_depth = 0]>>,
     <<DeepPosition, [NoLimits EXCEPT !.max_depth = 3, !.nodes = 5]>>,
     <<DeepPosition, [NoLimits EXCEPT !.max_depth = 3, !.nodes = 14]>>,
     <<DeepPosition, [NoLimits EXCEPT !.nodes = 1]>>,
     <<DeepPosition, [NoLimits EXCEPT !.nodes = 2]>>,
     <<DeepPosition, [NoLimits EXCEPT !.nodes = 40]>>,
     <<DeepPosition, [NoLimits EXCEPT !.white_time = 30000]>>,
     <<DeepPosition, [NoLimits EXCEPT !.white_time = 30000, !.black_time = 30000]>>,
     <<0, [NoLimits EXCEPT !.move_time = 0]>>,
     <<0, [NoLimits EXCEPT !.move_time = 5]>>,
     <<0, [NoLimits EXCEPT !.move_time = 1001]>>,
     <<0, [NoLimits EXCEPT !.max_depth = TreeDepth, !.move_time = 5]>>,
     <<MatingPosition, [NoLimits EXCEPT !.max_depth = 2]>>,
     <<MatingPosition, [NoLimits EXCEPT !.nodes = 40]>>,
     <<StalematePosition, [NoLimits EXCEPT !.max_depth = 2]>>,
     <<StalematePosition, [NoLimits EXCEPT !.nodes = 40]>>,
     <<ClampRoot, [NoLimits EXCEPT !.max_depth = 2]>>,
     <<ClampRoot, [NoLimits EXCEPT !.nodes = 40]>>,
     <<PvRoot, [NoLimits EXCEPT !.max_depth = 2]>>,
     <<PvRoot, [NoLimits EXCEPT !.nodes = 40]>>}

StartSearch == \E run \in SearchRuns : SearchInternal(run[1], run[2])

NextSearch ==
    \/ StartSearch
    \/ AlphaBetaRootCall
    \/ AlphaBetaCall
    \/ QuiescenceCall
    \/ DepthUnderflowPanic
    \/ AlphaBetaResume
    \/ AlphaBetaAfterQuiescence
    \/ QuiescenceResume
    \/ RootResume
    \/ FixedDepthReturn
    \/ IterativeDeepeningResume

SpecSearch == Init /\ [][NextSearch]_vars

(***************************************************************************)
(* The time manager: allocate_time applied to limits with no move_time.    *)
(***************************************************************************)
\* remaining clocks, increments (ms) and movestogo values of the limits tried
TimeClocks == {None, 40, 53, 1000, 30000}

TimeIncrements == {None, 0, 5000}

TimeMovesToGo == {None, 0, 1, 40}

\* move numbers on both sides of the phase limits; from_fen accepts 0
TimeMoveNumbers == {0, 1, 10, 11, 30, 31}

TimeMoveTimes == {0, 700}

TimeArgs ==
    {[limits |-> [NoLimits EXCEPT !.white_time = wt, !.black_time = bt,
                                  !.white_increment = wi, !.black_increment = bi,
                                  !.moves_to_go = mtg],
      side |-> side, fullmove_number |-> n] :
        wt \in TimeClocks, bt \in TimeClocks, wi \in TimeIncrements,
        bi \in TimeIncrements, mtg \in TimeMovesToGo, side \in {"White", "Black"},
        n \in TimeMoveNumbers}
    \cup
    {[limits |-> [NoLimits EXCEPT !.move_time = mt, !.white_time = t, !.black_time = t],
      side |-> side, fullmove_number |-> 1] :
        mt \in TimeMoveTimes, t \in {None, 1000}, side \in {"White", "Black"}}

InitTime ==
    /\ GameInit /\ TTInit /\ SearchInit /\ UciInit /\ PositionInit /\ CallInit
    /\ time_args \in TimeArgs
    /\ time_result = NotComputed

AllocateTime ==
    /\ time_result = NotComputed
    /\ time_result' = allocate_time(time_args.limits, time_args.side,
                                    time_args.fullmove_number)
    /\ UNCHANGED time_args
    /\ UNCHANGED not_time

NextTime == AllocateTime

SpecTime == InitTime /\ [][NextTime]_vars

(***************************************************************************)
(* The position commands of a UCI session.                                 *)
(***************************************************************************)
\* the move tokens of the commands: e2e4, e7e5 and g1f3 are legal in some
\* position reached; e2e5 is no legal move, e9e4 names no square, e2 is short
MoveTokens ==
    {<<"e", "2", "e", "4">>, <<"e", "7", "e", "5">>, <<"g", "1", "f", "3">>,
     <<"e", "2", "e", "5">>, <<"e", "9", "e", "4">>, <<"e", "2">>}

\* how many tokens a command has after "moves"
MaxTokens == 2

\* how many position commands a session has
MaxCommands == 2

TokenLists ==
    UNION {[1 .. n -> MoveTokens] : n \in 0 .. MaxTokens}

PositionCommands ==
    {PositionCommand("", FALSE, <<>>), PositionCommand("other", FALSE, <<>>),
     PositionCommand("startpos", FALSE, <<>>)}
    \cup {PositionCommand("startpos", TRUE, tokens) : tokens \in TokenLists}

\* run: a line "position ..." is read and handled
HandlePosition ==
    /\ position_count < MaxCommands
    /\ \E parts \in PositionCommands :
          /\ uci_position' = handle_position(uci_position, parts)
          /\ position_parts' = parts
    /\ position_before' = uci_position
    /\ position_count' = position_count + 1
    /\ UNCHANGED not_position

NextPosition == HandlePosition

SpecPosition == Init /\ [][NextPosition]_vars

(***************************************************************************)
(* A UCI session: the main thread reads the lines of a session and the     *)
(* search thread it spawns runs the search and prints the bestmove line.   *)
(* A line arrives while no search runs or at one of ArrivalTimes.          *)
(***************************************************************************)
Go(args) == Line("go", args)

Stop == Line("stop", <<>>)

Quit == Line("quit", <<>>)

\* the sessions: the position searched and the lines sent; the input ends
\* after the last line
UciSessions ==
    {<<DeepPosition, <<Go(<<GoArg("depth", 2)>>)>>>>,
     <<DeepPosition, <<Go(<<GoArg("depth", 2)>>), Quit>>>>,
     <<DeepPosition, <<Go(<<GoArg("depth", 2)>>), Go(<<GoArg("nodes", 1)>>), Stop, Quit>>>>,
     <<DeepPosition, <<Go(<<GoArg("nodes", 40)>>), Stop, Quit>>>>,
     <<DeepPosition, <<Go(<<GoArg("wtime", 1000), GoArg("btime", 1000),
                            GoArg("movestogo", 0)>>), Quit>>>>,
     <<DeepPosition, <<Stop, Go(<<GoArg("depth", 0)>>), Quit>>>>,
     <<DeepPosition, <<Go(<<>>), Quit>>>>,
     <<0, <<Go(<<GoArg("infinite", None)>>), Stop, Quit>>>>,
     <<0, <<Go(<<GoArg("depth", TreeDepth)>>), Stop, Quit>>>>,
     <<MatingPosition, <<Go(<<GoArg("infinite", None)>>), Stop, Quit>>>>,
     <<StalematePosition, <<Go(<<GoArg("depth", 2)>>), Quit>>>>}

\* the times, in nodes searched, at which a line may arrive during a search
ArrivalTimes == {0, 1, 500}

ArrivalAllowed == IF thread_state = "running" THEN elapsed \in ArrivalTimes ELSE TRUE

InitUci ==
    /\ GameInit /\ TTInit /\ SearchInit /\ TimeInit /\ PositionInit /\ CallInit
    /\ \E session \in UciSessions :
          /\ uci_root = session[1]
          /\ uci_lines = session[2]
    /\ stop_flag = FALSE
    /\ search_thread = FALSE
    /\ main_pc = "read"
    /\ main_limits = NoLimits
    /\ thread_state = "none"
    /\ thread_limits = NoLimits
    /\ thread_go = 0
    /\ go_count = 0
    /\ threads_running = 0
    /\ bestmoves = <<>>

\* handle_go, lines 255-297: the stop flag is reset and a search thread is
\* spawned with a new SearchInfo and a new table
Spawn(limits, go) ==
    /\ stop_flag' = FALSE
    /\ search_thread' = TRUE
    /\ thread_state' = "running"
    /\ thread_limits' = limits
    /\ thread_go' = go
    /\ threads_running' = threads_running + 1
    /\ s_pc' = "idle"
    /\ s_root' = uci_root
    /\ s_given' = NoLimits
    /\ info' = SearchInfo(NoLimits)
    /\ elapsed' = 0
    /\ stack' = <<>>
    /\ ret' = NoReturn
    /\ s_depth' = 0
    /\ saved_nodes' = 0
    /\ best_result' = NoResult
    /\ s_result' = NoResult
    /\ callbacks' = <<>>
    /\ g_committed' = NoCommit
    /\ g_cond_since' = 0
    /\ g_stopped_store' = FALSE
    /\ tt_entries' = [i \in 0 .. 2 * TTSlots - 1 |-> ZeroWord]

\* run reads a go line: handle_go up to the join of the previous search
\* thread (line 252) or, with no previous thread, to its end
HandleGo ==
    /\ main_pc = "read"
    /\ uci_lines # <<>>
    /\ Head(uci_lines).cmd = "go"
    /\ ArrivalAllowed
    /\ uci_lines' = Tail(uci_lines)
    /\ go_count' = go_count + 1
    /\ main_limits' = go_limits(Head(uci_lines).args)
    /\ IF search_thread
       THEN /\ stop_flag' = TRUE
            /\ search_thread' = FALSE
            /\ main_pc' = "go_join"
            /\ UNCHANGED <<thread_state, thread_limits, thread_go, threads_running,
                           search_vars, tt_entries>>
       ELSE /\ Spawn(go_limits(Head(uci_lines).args), go_count + 1)
            /\ UNCHANGED main_pc
    /\ UNCHANGED <<uci_root, bestmoves>>
    /\ UNCHANGED <<game_vars, tt_thread_vars, time_vars, position_vars, call_vars>>

\* handle_go from the return of join (line 252) to its end
GoJoined ==
    /\ main_pc = "go_join"
    /\ thread_state \in {"finished", "panicked"}
    /\ Spawn(main_limits, go_count)
    /\ main_pc' = "read"
    /\ UNCHANGED <<uci_root, uci_lines, main_limits, go_count, bestmoves>>
    /\ UNCHANGED <<game_vars, tt_thread_vars, time_vars, position_vars, call_vars>>

\* run reads a stop line: handle_stop up to the join (line 358) or, with no
\* search thread, to its end
HandleStop ==
    /\ main_pc = "read"
    /\ uci_lines # <<>>
    /\ Head(uci_lines).cmd = "stop"
    /\ ArrivalAllowed
    /\ uci_lines' = Tail(uci_lines)
    /\ stop_flag' = TRUE
    /\ search_thread' = FALSE
    /\ main_pc' = IF search_thread THEN "stop_join" ELSE "read"
    /\ UNCHANGED <<uci_root, main_limits, thread_state, thread_limits, thread_go,
                   go_count, threads_running, bestmoves>>
    /\ UNCHANGED <<game_vars, tt_vars, search_vars, time_vars, position_vars, call_vars>>

\* handle_stop returns from join
StopJoined ==
    /\ main_pc = "stop_join"
    /\ thread_state \in {"finished", "panicked"}
    /\ main_pc' = "read"
    /\ UNCHANGED <<stop_flag, search_thread, uci_root, uci_lines, main_limits,
                   thread_state, thread_limits, thread_go, go_count, threads_running,
                   bestmoves>>
    /\ UNCHANGED <<game_vars, tt_vars, search_vars, time_vars, position_vars, call_vars>>

\* run reads a quit line: handle_stop, then the loop is left and main returns
HandleQuit ==
    /\ main_pc = "read"
    /\ uci_lines # <<>>
    /\ Head(uci_lines).cmd = "quit"
    /\ ArrivalAllowed
    /\ uci_lines' = Tail(uci_lines)
    /\ stop_flag' = TRUE
    /\ search_thread' = FALSE
    /\ main_pc' = IF search_thread THEN "quit_join" ELSE "exited"
    /\ UNCHANGED <<uci_root, main_limits, thread_state, thread_limits, thread_go,
                   go_count, threads_running, bestmoves>>
    /\ UNCHANGED <<game_vars, tt_vars, search_vars, time_vars, position_vars, call_vars>>

\* handle_stop returns from join, the loop is left and main returns
QuitJoined ==
    /\ main_pc = "quit_join"
    /\ thread_state \in {"finished", "panicked"}
    /\ main_pc' = "exited"
    /\ UNCHANGED <<stop_flag, search_thread, uci_root, uci_lines, main_limits,
                   thread_state, thread_limits, thread_go, go_count, threads_running,
                   bestmoves>>
    /\ UNCHANGED <<game_vars, tt_vars, search_vars, time_vars, position_vars, call_vars>>

\* standard input ends: the loop of run ends, run and main return, and the
\* process exits with whatever the search thread was doing
EndOfInput ==
    /\ main_pc = "read"
    /\ uci_lines = <<>>
    /\ ArrivalAllowed
    /\ main_pc' = "exited"
    /\ UNCHANGED <<stop_flag, search_thread, uci_root, uci_lines, main_limits,
                   thread_state, thread_limits, thread_go, go_count, threads_running,
                   bestmoves>>
    /\ UNCHANGED <<game_vars, tt_vars, search_vars, time_vars, position_vars, call_vars>>

\* the search thread runs while the process lives
ThreadRuns == thread_state = "running" /\ main_pc # "exited"

\* the search thread calls the search (line 286)
ThreadSearch == ThreadRuns /\ SearchInternal(uci_root, thread_limits)

\* the search thread prints the bestmove line and ends (lines 289-294)
PrintBestmove ==
    /\ ThreadRuns
    /\ s_pc = "done"
    /\ bestmoves' = Append(bestmoves, [go |-> thread_go, best_move |-> s_result.best_move])
    /\ thread_state' = "finished"
    /\ threads_running' = threads_running - 1
    /\ UNCHANGED <<stop_flag, search_thread, uci_root, uci_lines, main_pc, main_limits,
                   thread_limits, thread_go, go_count>>
    /\ UNCHANGED <<game_vars, tt_vars, search_vars, time_vars, position_vars, call_vars>>

\* the search thread ends by a panic
ThreadPanics ==
    /\ ThreadRuns
    /\ s_pc = "panicked"
    /\ thread_state' = "panicked"
    /\ threads_running' = threads_running - 1
    /\ UNCHANGED <<stop_flag, search_thread, uci_root, uci_lines, main_pc, main_limits,
                   thread_limits, thread_go, go_count, bestmoves>>
    /\ UNCHANGED <<game_vars, tt_vars, search_vars, time_vars, position_vars, call_vars>>

NextUci ==
    \/ HandleGo
    \/ GoJoined
    \/ HandleStop
    \/ StopJoined
    \/ HandleQuit
    \/ QuitJoined
    \/ EndOfInput
    \/ ThreadSearch
    \/ ThreadRuns /\ AlphaBetaRootCall
    \/ ThreadRuns /\ AlphaBetaCall
    \/ ThreadRuns /\ QuiescenceCall
    \/ ThreadRuns /\ DepthUnderflowPanic
    \/ ThreadRuns /\ AlphaBetaResume
    \/ ThreadRuns /\ AlphaBetaAfterQuiescence
    \/ ThreadRuns /\ QuiescenceResume
    \/ ThreadRuns /\ RootResume
    \/ ThreadRuns /\ FixedDepthReturn
    \/ ThreadRuns /\ IterativeDeepeningResume
    \/ PrintBestmove
    \/ ThreadPanics

SpecUci == InitUci /\ [][NextUci]_vars

(***************************************************************************)
(* apply_move called once on a position read from a FEN string: a position *)
(* of a recorded line with the halfmove clock the FEN string gives.        *)
(***************************************************************************)
RECURSIVE PlayLine(_, _, _)
\* the position after the first n moves of a line
PlayLine(s, line, n) ==
    IF n = 0 THEN s ELSE apply_move(PlayLine(s, line, n - 1), line[n])

\* positions before a castling move of either side, an en-passant capture, a
\* capturing promotion and plain captures
ClockBoards ==
    {GameStateNew,
     PlayLine(GameStateNew, BookKingsideCastles, 7),
     PlayLine(GameStateNew, BookKingsideCastles, 8),
     PlayLine(GameStateNew, BookQueensideCastles, 8),
     PlayLine(GameStateNew, BookWhiteEnPassant, 4),
     PlayLine(GameStateNew, BookWhitePromotion, 8)}

\* halfmove clocks of the FEN strings: from_fen accepts every u16
ClockValues == {0, 7, 99, U16 - 2, U16 - 1}

InitClock ==
    /\ GameInit /\ TTInit /\ SearchInit /\ UciInit /\ TimeInit /\ PositionInit
    /\ SizeInit /\ OrderInit
    /\ clock_pc = "idle"
    /\ \E b \in ClockBoards : \E c \in ClockValues :
          clock_position = [b EXCEPT !.halfmove_clock = c]
    /\ clock_move = NoMove
    /\ clock_result = GameStateNew

\* the clock is incremented by the move and cannot hold the sum
ClockOverflows(s, mv) ==
    /\ s.halfmove_clock = U16 - 1
    /\ \/ s.board.array_board[mv.from].piece_type = "King" /\ distance(mv.from, mv.to) = 2
       \/ /\ s.board.array_board[mv.from].piece_type # "Pawn"
          /\ s.board.array_board[mv.to] = NoPiece

\* apply_move on a pseudo-legal move returns
ApplyMoveReturns ==
    /\ clock_pc = "idle"
    /\ \E mv \in SeqRange(generate_pseudo_legal_moves(clock_position)) :
          /\ clock_move' = mv
          /\ clock_result' = apply_move(clock_position, mv)
    /\ clock_pc' = "returned"
    /\ UNCHANGED clock_position
    /\ UNCHANGED not_clock

\* apply_move on a pseudo-legal move in a build with overflow checks: the
\* addition at line 154 or 194 panics
ApplyMovePanics ==
    /\ clock_pc = "idle"
    /\ \E mv \in SeqRange(generate_pseudo_legal_moves(clock_position)) :
          /\ ClockOverflows(clock_position, mv)
          /\ clock_move' = mv
    /\ clock_pc' = "panicked"
    /\ UNCHANGED <<clock_position, clock_result>>
    /\ UNCHANGED not_clock

NextClock == ApplyMoveReturns \/ ApplyMovePanics

SpecClock == InitClock /\ [][NextClock]_vars

(***************************************************************************)
(* TranspositionTable::new called with a byte budget, and the slot index   *)
(* store and probe compute on the table made.                              *)
(***************************************************************************)
\* the largest budget tried, in MiB
MaxSizeMb == 64

\* hashes around the table sizes
SizeHashes == {0, 1, 32767, 32768, 65535, 65536, 98304, 131071, 1048577, 4194303}

InitSize ==
    /\ GameInit /\ TTInit /\ SearchInit /\ UciInit /\ TimeInit /\ PositionInit
    /\ ClockInit /\ OrderInit
    /\ size_pc = "idle"
    /\ size_mb \in 1 .. MaxSizeMb
    /\ size_table = [size_mask |-> 0, words |-> 0]
    /\ size_hash = 0
    /\ size_index = 0

NewTable ==
    /\ size_pc = "idle"
    /\ size_table' = TranspositionTable_new(size_mb)
    /\ size_pc' = "made"
    /\ UNCHANGED <<size_mb, size_hash, size_index>>
    /\ UNCHANGED not_size

\* store or probe computes the index of a hash
IndexSlot ==
    /\ size_pc = "made"
    /\ \E hash \in SizeHashes :
          /\ size_hash' = hash
          /\ size_index' = word_index(size_table, hash)
    /\ UNCHANGED <<size_pc, size_mb, size_table>>
    /\ UNCHANGED not_size

NextSize == NewTable \/ IndexSlot

SpecSize == InitSize /\ [][NextSize]_vars

(***************************************************************************)
(* order_captures called on a list of captures of one position.            *)
(***************************************************************************)
\* the longest capture list ordered
MaxCaptures == 2

\* the captures a list is made of: who takes what, en-passant captures (whose
\* target square is empty) included
CaptureKinds ==
    {[attacker |-> a, victim |-> v, en_passant |-> FALSE] :
        a \in PieceTypes, v \in PieceTypes \ {"King"}}
    \cup {[attacker |-> "Pawn", victim |-> "None", en_passant |-> TRUE]}

\* the i-th capture of a list, from square i to square 8 + i
CaptureEdge(i, kind) == Edge(i, 8 + i, kind.attacker, kind.victim, kind.en_passant)

CaptureLists ==
    UNION {{[i \in 1 .. n |-> CaptureEdge(i, kinds[i])] : kinds \in [1 .. n -> CaptureKinds]} :
              n \in 1 .. MaxCaptures}

InitOrder ==
    /\ GameInit /\ TTInit /\ SearchInit /\ UciInit /\ TimeInit /\ PositionInit
    /\ ClockInit /\ SizeInit
    /\ order_pc = "idle"
    /\ order_input \in CaptureLists
    /\ order_output = <<>>

OrderCaptures ==
    /\ order_pc = "idle"
    /\ order_output' = order_captures(order_input)
    /\ order_pc' = "sorted"
    /\ UNCHANGED order_input
    /\ UNCHANGED not_order

NextOrder == OrderCaptures

SpecOrder == InitOrder /\ [][NextOrder]_vars

(***************************************************************************)
(* Properties                                                              *)
(***************************************************************************)
LastMove == moves[Len(moves)]

\* the piece the last move moved
LastPiece == prev.board.array_board[LastMove.from]

\* C1: in every position reached by legal moves, the king of the side that
\* just moved is not attacked by the side to move
C1_MoverKingSafe ==
    ~is_attacked_by(state, king_square(state.board.array_board, opponent(state.turn)),
                    state.turn)

\* a move was played from a position in which the legality filter dropped moves
C1_Witness ==
    /\ moves # <<>>
    /\ Len(generate_legal_moves(prev)) < Len(generate_pseudo_legal_moves(prev))
    /\ C1_MoverKingSafe

\* C2: perft(GameState::new(), d) is 20, 400 and 8902 for d = 1, 2 and 3
C2_PerftStartingPosition ==
    /\ perft_out.depth = 1 => perft_out.nodes = 20
    /\ perft_out.depth = 2 => perft_out.nodes = 400
    /\ perft_out.depth = 3 => perft_out.nodes = 8902

C2_Witness == perft_out = [depth |-> 3, nodes |-> 8902]

\* C3: in every position reached by legal moves the bitboard set equals the
\* bitboard set recomputed from the square-to-piece array
C3_DualRepresentation ==
    LET arr == state.board.array_board
        bb == state.board.bitboards
    IN  /\ \A c \in Colors : \A pt \in PieceTypes :
              bb.pieces[c][pt] = {sq \in Squares : arr[sq] = Piece(pt, c)}
        /\ \A c \in Colors :
              bb.color_occupancy[c] = {sq \in Squares : arr[sq].color = c}
        /\ bb.all_occupancy = {sq \in Squares : arr[sq] # NoPiece}

\* the last move was an en-passant capture that removed a pawn
C3_Witness ==
    /\ moves # <<>>
    /\ LastPiece.piece_type = "Pawn"
    /\ LastMove.to = prev.en_passant
    /\ Cardinality(state.board.bitboards.all_occupancy)
         = Cardinality(prev.board.bitboards.all_occupancy) - 1
    /\ C3_DualRepresentation

IsDoublePush(s, mv) ==
    /\ s.board.array_board[mv.from].piece_type = "Pawn"
    /\ Abs(RankOf(mv.to) - RankOf(mv.from)) = 2

CrossedSquare(mv) == SquareNew(FileOf(mv.from), (RankOf(mv.from) + RankOf(mv.to)) \div 2)

\* C4: for every pseudo-legal move of a position, the en-passant target after
\* the move is the crossed square for a pawn double push and none otherwise
C4_EnPassantTargetRule ==
    \A mv \in SeqRange(generate_pseudo_legal_moves(state)) :
        apply_move(state, mv).en_passant
            = IF IsDoublePush(state, mv) THEN CrossedSquare(mv) ELSE NoSquare

HomeRight(arr, right, color, king_home, rook_home) ==
    right => /\ arr[king_home] = Piece("King", color)
             /\ arr[rook_home] = Piece("Rook", color)

\* C5: every castling right still set implies that king and rook of that
\* colour stand on their home squares
C5_CastlingRightsImplyHome ==
    LET arr == state.board.array_board
    IN  /\ HomeRight(arr, state.castling.white.kingside, "White", 4, 7)
        /\ HomeRight(arr, state.castling.white.queenside, "White", 4, 0)
        /\ HomeRight(arr, state.castling.black.kingside, "Black", 60, 63)
        /\ HomeRight(arr, state.castling.black.queenside, "Black", 60, 56)

\* a capture on h8 has cleared Black's king-side right while Black keeps the other
C5_Witness ==
    /\ moves # <<>>
    /\ LastMove.to = 63
    /\ prev.castling.black.kingside
    /\ ~state.castling.black.kingside
    /\ state.castling.black.queenside
    /\ C5_CastlingRightsImplyHome

KingCount(arr, color) == Cardinality({sq \in Squares : arr[sq] = Piece("King", color)})

\* C6: the board holds exactly one white king and exactly one black king
C6_OneKingEach ==
    /\ KingCount(state.board.array_board, "White") = 1
    /\ KingCount(state.board.array_board, "Black") = 1

\* the last move moved a king
C6_Witness ==
    /\ moves # <<>>
    /\ LastPiece.piece_type = "King"
    /\ C6_OneKingEach

RightsOf(c) == <<c.white.kingside, c.white.queenside, c.black.kingside, c.black.queenside>>

\* C7: a castling right that was false before a move is false after it
C7_RightsNeverReappear ==
    \A i \in 1 .. 4 : ~RightsOf(prev.castling)[i] => ~RightsOf(state.castling)[i]

\* king and rooks are back on their home squares and the rights stay lost
C7_Witness ==
    /\ Len(moves) > 1
    /\ state.board.array_board[4] = Piece("King", "White")
    /\ state.board.array_board[0] = Piece("Rook", "White")
    /\ state.board.array_board[7] = Piece("Rook", "White")
    /\ RightsOf(prev.castling)[1] = FALSE
    /\ RightsOf(state.castling)[1] = FALSE
    /\ RightsOf(state.castling)[2] = FALSE

RightsIndex(c) ==
    (IF c.white.kingside THEN 1 ELSE 0) + (IF c.white.queenside THEN 2 ELSE 0)
    + (IF c.black.kingside THEN 4 ELSE 0) + (IF c.black.queenside THEN 8 ELSE 0)

C9_ApplyInjectiveOnLegal ==
    LET legal == generate_legal_moves(state)
    IN  \A i \in 1 .. Len(legal) : \A j \in 1 .. Len(legal) :
            i < j => apply_move(state, legal[i]) # apply_move(state, legal[j])

\* a position whose legal moves hold the four promotions of one pawn step
C9_Witness ==
    LET legal == generate_legal_moves(state)
    IN  /\ \E i \in 1 .. Len(legal) : legal[i].promotion = "Knight"
        /\ C9_ApplyInjectiveOnLegal

SameData(a, b) ==
    /\ a.best_move = b.best_move
    /\ a.score = b.score
    /\ a.depth = b.depth
    /\ a.node_type = b.node_type

\* C10: an entry that probe(h) returns carries the move, score, depth and node
\* type that one single store call wrote together with hash h (stated for the
\* hashes other than 0, the value an empty slot holds)
C10_ProbeReturnsOneStore ==
    (probe_pc = "idle" /\ probe_result # NoEntry /\ probe_hash # 0)
        => \E call \in store_calls : call.hash = probe_hash /\ SameData(call, probe_result)

\* C11: after a store call has completed, probe of the stored hash returns an
\* entry with the best move, score, depth and node type that were stored
C11_StoreThenProbe ==
    (store_pc = "idle" /\ store_calls # {})
        => LET entry == probe(tt_entries, store_args.hash)
           IN  entry # NoEntry /\ SameData(entry, store_args)

\* C12: a search that returns with stopped set returns the best move, score
\* and depth of the last root search that ran to completion, and no best move
\* with depth 0 if none did
C12_StoppedReturnsCommitted ==
    (s_pc = "done" /\ s_result.stopped)
        => IF g_committed = NoCommit
           THEN s_result.best_move = NoMove /\ s_result.depth = 0
           ELSE /\ s_result.best_move = g_committed.best_move
                /\ s_result.score = g_committed.score
                /\ s_result.depth = g_committed.depth

\* C13: once the deadline has elapsed or the node cap is reached, the search
\* sets stopped after visiting at most TIME_CHECK_INTERVAL further nodes, and
\* once stopped is set no call in progress goes on to another move and no
\* new call gets as far as its loop over the moves
C13_StopObservedInTime ==
    /\ [](g_cond_since <= TIME_CHECK_INTERVAL)
    /\ [][info.stopped =>
             /\ Len(stack') <= Len(stack)
             /\ \A k \in 1 .. Len(stack') : stack'[k].i = stack[k].i]_vars

\* a search that ran on after its deadline has noticed it and returned
C13_Witness ==
    /\ s_pc = "done"
    /\ info.stopped
    /\ info.limits.move_time # None
    /\ g_cond_since > 0

\* C16: when a search returns a best move, the callback has been invoked once
\* for each completed depth, in increasing order of depth, and its last
\* invocation carries the depth and the score of the result
C16_CallbackPerCompletedDepth ==
    (s_pc = "done" /\ s_result.best_move # NoMove)
        => /\ callbacks # <<>>
           /\ \A k \in 1 .. Len(callbacks) : callbacks[k].depth = k
           /\ callbacks[Len(callbacks)].depth = s_result.depth
           /\ callbacks[Len(callbacks)].score = s_result.score

\* C18: when the limits carry no move_time and the clock of the side to move
\* is set, the search runs under a deadline equal to the result of
\* allocate_time
C18_DeadlineFromOwnClock ==
    LET side == SearchPositions[s_root].turn
        our_time == IF side = "White" THEN s_given.white_time ELSE s_given.black_time
    IN  (s_pc \notin {"idle", "panicked"} /\ s_given.move_time = None /\ our_time # None)
            => info.limits.move_time
                   = allocate_time(s_given, side, SearchPositions[s_root].fullmove_number)

\* C20: once stopped is set, nothing is stored in the transposition table and
\* no call in progress changes its best score, best move or principal
\* variation
C20_StoppedScoresNotCommitted ==
    /\ [](~g_stopped_store)
    /\ [][info.stopped =>
             \A k \in 1 .. Len(stack') :
                 /\ stack'[k].best_score = stack[k].best_score
                 /\ stack'[k].best_move = stack[k].best_move
                 /\ stack'[k].best_pv = stack[k].best_pv]_vars

\* the remaining clock of the side to move
OurTime ==
    IF time_args.side = "White" THEN time_args.limits.white_time
    ELSE time_args.limits.black_time

\* allocate_time returned a move time computed from the clock
TimeAllocated ==
    /\ time_result \notin {NotComputed, None, Panic}
    /\ time_args.limits.move_time = None

RECURSIVE HasInvalidToken(_, _, _)
HasInvalidToken(p, tokens, idx) ==
    IF idx > Len(tokens) THEN FALSE
    ELSE LET mv == parse_move(p, tokens[idx])
         IN  IF mv = NoMove THEN TRUE
             ELSE HasInvalidToken(apply_move(p, mv), tokens, idx + 1)

\* C17: after a position command with a move token that does not decode to a
\* legal move, the stored position is the one stored before the command
C17_InvalidMoveKeepsPosition ==
    (/\ position_count > 0
     /\ position_parts.start = "startpos"
     /\ position_parts.has_moves
     /\ HasInvalidToken(GameStateNew, position_parts.tokens, 1))
        => uci_position = position_before

\* C14: the k-th bestmove line answers the k-th go command, every go command
\* read has its bestmove line once main has returned, and at most one search
\* thread runs at any moment
C14_OneBestmovePerGo ==
    /\ threads_running <= 1
    /\ Len(bestmoves) <= go_count
    /\ \A k \in 1 .. Len(bestmoves) : bestmoves[k].go = k
    /\ main_pc = "exited" => Len(bestmoves) = go_count

\* C15: a bestmove line is 0000 only when the position searched has no legal
\* move, and otherwise names a legal move of that position
C15_BestmoveIsLegal ==
    \A k \in 1 .. Len(bestmoves) :
        LET legal == position_legal_moves(uci_root)
        IN  IF bestmoves[k].best_move = NoMove THEN legal = <<>>
            ELSE \E i \in 1 .. Len(legal) : legal[i].mv = bestmoves[k].best_move

IsCastlingMove(s, mv) ==
    /\ s.board.array_board[mv.from].piece_type = "King"
    /\ Abs(FileOf(mv.to) - FileOf(mv.from)) = 2

\* the squares strictly between the king and the rook of a castling move
CastlingBetween(mv) ==
    IF mv.to > mv.from THEN {mv.from + 1, mv.from + 2}
    ELSE {mv.from - 1, mv.from - 2, mv.from - 3}

\* the king's start square, the square it crosses and the square it lands on
CastlingKingPath(mv) == {mv.from, (mv.from + mv.to) \div 2, mv.to}

CastlingRightFor(s, mv) ==
    IF mv.to > mv.from THEN CastlingGet(s.castling, s.turn).kingside
    ELSE CastlingGet(s.castling, s.turn).queenside

\* C21: every castling move of generate_legal_moves has its castling right
\* set, only empty squares between king and rook, and a king path (start,
\* crossed and landing square) free of attacks by the opponent
C21_CastlingOnlyWhenAllowed ==
    \A mv \in SeqRange(generate_legal_moves(state)) :
        IsCastlingMove(state, mv) =>
            /\ CastlingRightFor(state, mv)
            /\ \A sq \in CastlingBetween(mv) : is_empty(state.board.array_board, sq)
            /\ \A sq \in CastlingKingPath(mv) :
                   ~is_attacked_by(state, sq, opponent(state.turn))

\* a position whose legal moves hold a castling move
C21_Witness ==
    /\ \E mv \in SeqRange(generate_legal_moves(state)) : IsCastlingMove(state, mv)
    /\ C21_CastlingOnlyWhenAllowed

\* the right is set and the squares are empty, but f1 is attacked, and no
\* castling move is among the legal moves
C21_Rejected ==
    /\ state.turn = "White"
    /\ state.castling.white.kingside
    /\ is_empty(state.board.array_board, 5) /\ is_empty(state.board.array_board, 6)
    /\ is_attacked_by(state, 5, "Black")
    /\ ~is_attacked_by(state, 4, "Black") /\ ~is_attacked_by(state, 6, "Black")
    /\ ~\E mv \in SeqRange(generate_legal_moves(state)) : IsCastlingMove(state, mv)

MovesPawn(s, mv) == s.board.array_board[mv.from].piece_type = "Pawn"

\* the move takes a piece: the target square is occupied, or a pawn moves
\* diagonally onto the en-passant target
Captures(s, mv) ==
    \/ s.board.array_board[mv.to] # NoPiece
    \/ MovesPawn(s, mv) /\ FileOf(mv.from) # FileOf(mv.to)

ClockRule ==
    clock_result.halfmove_clock
        = IF MovesPawn(clock_position, clock_move) \/ Captures(clock_position, clock_move)
          THEN 0 ELSE clock_position.halfmove_clock + 1

LargestSlots(mb) ==
    2 ^ (CHOOSE k \in 0 .. 30 : 16 * 2 ^ k <= mb * 2 ^ 20 /\ 16 * 2 ^ (k + 1) > mb * 2 ^ 20)

\* C23: TranspositionTable::new(size_mb) makes N slots, N the largest power
\* of two with 16 * N <= size_mb * 2^20, and store and probe index the slot
\* hash & (N - 1)
C23_LargestPowerOfTwoSlots ==
    size_pc = "made" =>
        /\ size_table.size_mask + 1 = LargestSlots(size_mb)
        /\ size_table.words = 2 * LargestSlots(size_mb)
        /\ size_index = 2 * (size_hash % LargestSlots(size_mb))

OurIncrement ==
    LET inc == IF time_args.side = "White" THEN time_args.limits.white_increment
               ELSE time_args.limits.black_increment
    IN  IF inc = None THEN 0 ELSE inc

\* the formula of the time manager on the clock and increment of the side to
\* move, for a number of moves left
TimeFormula(moves_left) ==
    Max(50, Min(OurTime \div moves_left + (8 * OurIncrement) \div 10,
                (95 * OurTime) \div 100))

\* allocate_time has returned, on limits with a clock for the side to move,
\* no move_time and no movestogo of 0
TimeFromClock ==
    /\ time_result # NotComputed
    /\ time_args.limits.move_time = None
    /\ OurTime # None
    /\ time_args.limits.moves_to_go # 0

\* a set move_time is returned unchanged
MoveTimeReturned ==
    (time_result # NotComputed /\ time_args.limits.move_time # None)
        => time_result = time_args.limits.move_time

VictimValue(e) == IF e.en_passant THEN PieceValue("Pawn") ELSE PieceValue(e.victim)

\* C25: after order_captures, of two non-promotion captures the one with the
\* strictly higher valued victim comes first whatever the attackers, and of
\* two captures of equally valued victims the one by the lower valued
\* attacker comes first
C25_VictimThenAttacker ==
    order_pc = "sorted" =>
        \A i \in 1 .. Len(order_output) : \A j \in 1 .. Len(order_output) :
            i < j =>
                /\ VictimValue(order_output[i]) >= VictimValue(order_output[j])
                /\ VictimValue(order_output[i]) = VictimValue(order_output[j])
                      => PieceValue(order_output[i].attacker)
                           <= PieceValue(order_output[j].attacker)

RECURSIVE plain_quiescence(_, _, _, _)
RECURSIVE plain_quiescence_loop(_, _, _, _, _)
RECURSIVE plain_alpha_beta(_, _, _, _)
RECURSIVE plain_moves_loop(_, _, _, _, _, _)
\* quiescence (search.rs:466-540) with no stop
plain_quiescence(p, depth, alpha, beta) ==
    LET stand_pat == position_evaluate(p)
        captures == order_captures(capture_moves(position_legal_moves(p)))
    IN  IF stand_pat >= beta THEN beta
        ELSE IF depth <= 0 THEN stand_pat
        ELSE IF captures = <<>> THEN stand_pat
        ELSE plain_quiescence_loop(depth, Max(alpha, stand_pat), beta, captures, 1)

plain_quiescence_loop(depth, alpha, beta, captures, i) ==
    IF i > Len(captures) THEN alpha
    ELSE LET score == 0 - plain_quiescence(captures[i].child, depth - 1,
                                           0 - beta, 0 - alpha)
         IN  IF score >= beta THEN beta
             ELSE plain_quiescence_loop(depth, Max(alpha, score), beta, captures, i + 1)

\* alpha_beta (search.rs:329-463) with a transposition table that never hits
\* and no stop: the score it returns
plain_alpha_beta(p, depth, alpha, beta) ==
    IF depth = 0 THEN plain_quiescence(p, QUIESCENCE_DEPTH, alpha, beta)
    ELSE IF position_legal_moves(p) = <<>>
    THEN (IF position_is_in_check(p)
          THEN SearchPositions[p].fullmove_number - CHECKMATE_SCORE ELSE 0)
    ELSE plain_moves_loop(depth, alpha, beta, order_moves(position_legal_moves(p)),
                          1, 0 - INFINITY)

\* the loop over the moves of alpha_beta and of alpha_beta_root
plain_moves_loop(depth, alpha, beta, legal, i, best_score) ==
    IF i > Len(legal) THEN best_score
    ELSE LET score == 0 - plain_alpha_beta(legal[i].child, depth - 1,
                                           0 - beta, 0 - alpha)
         IN  IF Max(alpha, score) >= beta THEN Max(best_score, score)
             ELSE plain_moves_loop(depth, Max(alpha, score), beta, legal, i + 1,
                                   Max(best_score, score))

\* alpha_beta_root (search.rs:278-329) with the full window, likewise
plain_alpha_beta_root(p, depth) ==
    IF position_legal_moves(p) = <<>>
    THEN (IF position_is_in_check(p)
          THEN SearchPositions[p].fullmove_number - CHECKMATE_SCORE ELSE 0)
    ELSE plain_moves_loop(depth, 0 - INFINITY, INFINITY,
                          order_moves(position_legal_moves(p)), 1, 0 - INFINITY)

\* alpha_beta_root has returned from a search that was not stopped
RootCompleted == s_pc = "root_returned" /\ ~info.stopped /\ s_depth >= 1

\* C26: the score alpha_beta_root returns with the full window is the score
\* of the same search with a transposition table that is never hit
C26_TableKeepsRootScore ==
    RootCompleted => ret.score = plain_alpha_beta_root(s_root, s_depth)

RECURSIVE PvLegal(_, _, _)
\* every move of pv from the i-th on is legal in the position reached
PvLegal(p, pv, i) ==
    \/ i > Len(pv)
    \/ \E k \in 1 .. Len(position_legal_moves(p)) :
          /\ position_legal_moves(p)[k].mv = pv[i]
          /\ PvLegal(position_legal_moves(p)[k].child, pv, i + 1)

\* C28: every principal variation alpha_beta_root returns or the progress
\* callback receives is a sequence of moves each legal in the position
\* reached by the moves before it
C28_PvIsLegalLine ==
    /\ s_pc = "root_returned" => PvLegal(s_root, ret.pv, 1)
    /\ \A k \in 1 .. Len(callbacks) : PvLegal(s_root, callbacks[k].pv, 1)

IsDiagonalPawnMoveToEmpty(s, mv) ==
    /\ s.board.array_board[mv.from].piece_type = "Pawn"
    /\ FileOf(mv.to) # FileOf(mv.from)
    /\ s.board.array_board[mv.to] = NoPiece

EnPassantVictimSquare(mv) == SquareNew(FileOf(mv.to), RankOf(mv.from))

\* C27: in every position reached from the starting position, every legal
\* pawn move that changes file and lands on an empty square is an en-passant
\* capture: an enemy pawn stands beside the mover on the file of the
\* destination, and that pawn made a double push on the preceding ply
C27_DiagonalToEmptyIsEnPassant ==
    \A mv \in SeqRange(generate_legal_moves(state)) :
        IsDiagonalPawnMoveToEmpty(state, mv)
            => /\ state.board.array_board[EnPassantVictimSquare(mv)]
                    = Piece("Pawn", opponent(state.turn))
               /\ moves # <<>>
               /\ LastMove.to = EnPassantVictimSquare(mv)
               /\ IsDoublePush(prev, LastMove)

NoStoreToSlotOf(hash) == \A call \in store_calls : SlotIndex(call.hash) # SlotIndex(hash)

\* C29: on a fresh table and after clear(), a probe of any hash returns no
\* entry as long as no store has been made for a hash of the same slot
C29_EmptySlotProbesNone ==
    (probe_pc = "idle" /\ NoStoreToSlotOf(probe_hash)) => probe_result = NoEntry

IsAlphaBetaFrame(frame) == frame.fn \in {"alpha_beta_root", "alpha_beta"}

\* C30: for every max_depth, 0 included, no call of alpha_beta is made with
\* a depth decremented below 0: the search does not panic on depth - 1, and
\* every call of alpha_beta runs at the depth of its caller less one
C30_DepthNeverBelowZero ==
    /\ s_pc # "panicked"
    /\ \A k \in 2 .. Len(stack) :
          (IsAlphaBetaFrame(stack[k]) /\ IsAlphaBetaFrame(stack[k - 1]))
              => stack[k].depth = stack[k - 1].depth - 1

====
